---- MODULE Spec2Model ----
(***************************************************************************)
(* Model of the sticker bot: the pack repository (databaseManager.js) on   *)
(* its single shared SQLite connection, the pack publisher                  *)
(* (stickerManager.js), the per-chat conversation engine                    *)
(* (messageHandlers.js, callbackHandlers.js, commandHandlers.js) and the    *)
(* session store with its hourly sweep (sessionManager.js).                 *)
(***************************************************************************)
EXTENDS Integers, Sequences, FiniteSets, TLC

(***************************************************************************)
(* Bounds of the model.                                                    *)
(***************************************************************************)
MaxUsers == 2
MaxIds == 2
MaxProcs == 2
MaxOps == 3
MaxChats == 1
MaxTempFiles == 1
MaxSetSize == 2
MaxAloneOps == 4
MaxSweepChats == 2
MaxHours == 7

Users == 1..MaxUsers
Procs == 1..MaxProcs
\* The draws Math.random() can give generateRandomId.
IdDraws == 1..MaxIds

(***************************************************************************)
(* Time, in milliseconds.  The hourly timers and the 6 hour threshold.     *)
(***************************************************************************)
PURGE_INTERVAL == 3600000
SESSION_MAX_AGE == 21600000

(***************************************************************************)
(* Strings are sequences of one-character strings.  null and undefined     *)
(* are the one-element sequences below, which no character sequence equals.*)
(***************************************************************************)
NullStr == <<"null">>
UndefinedStr == <<"undefined">>

LowerChars == <<"a", "b", "c", "d", "e", "f", "g", "h", "i", "j", "k", "l", "m",
                "n", "o", "p", "q", "r", "s", "t", "u", "v", "w", "x", "y", "z">>
UpperChars == <<"A", "B", "C", "D", "E", "F", "G", "H", "I", "J", "K", "L", "M",
                "N", "O", "P", "Q", "R", "S", "T", "U", "V", "W", "X", "Y", "Z">>
DigitChars == <<"0", "1", "2", "3", "4", "5", "6", "7", "8", "9">>

Range(q) == {q[i] : i \in DOMAIN q}
IsLowerAlnum(ch) == ch \in Range(LowerChars) \cup Range(DigitChars)
IsSlugChar(ch) == IsLowerAlnum(ch) \/ ch = "_"

\* String.prototype.toLowerCase, one character.
toLowerCaseChar(ch) ==
    IF ch \in Range(UpperChars)
    THEN LowerChars[CHOOSE i \in DOMAIN UpperChars : UpperChars[i] = ch]
    ELSE ch
toLowerCase(str) == [i \in DOMAIN str |-> toLowerCaseChar(str[i])]

\* String.prototype.trim
RECURSIVE trimStart(_)
trimStart(str) ==
    IF str # <<>> /\ Head(str) = " " THEN trimStart(Tail(str)) ELSE str
RECURSIVE trimEnd(_)
trimEnd(str) ==
    IF str # <<>> /\ str[Len(str)] = " " THEN trimEnd(SubSeq(str, 1, Len(str) - 1)) ELSE str
trim(str) == trimEnd(trimStart(str))

\* Number to decimal string, as a template literal prints it.
RECURSIVE decimalString(_)
decimalString(n) ==
    IF n < 10 THEN <<DigitChars[n + 1]>>
    ELSE decimalString(n \div 10) \o <<DigitChars[(n % 10) + 1]>>

\* isValidStickerSetName: /^[a-z0-9_]{1,64}$/
isValidStickerSetName(name) ==
    /\ Len(name) >= 1
    /\ Len(name) <= 64
    /\ \A i \in DOMAIN name : IsSlugChar(name[i])

\* isValidStickerSetName of utils.js, the one stickerManager.js imports:
\* /^[a-z0-9_]+$/
isValidStickerSetNameOfUtils(name) ==
    /\ Len(name) >= 1
    /\ \A i \in DOMAIN name : IsSlugChar(name[i])

\* sanitizeStickerSetName that strips before it lowercases.
sanitizeStickerSetNameStripFirst(input) ==
    LET kept == toLowerCase(SelectSeq(input, IsLowerAlnum))
    IN SubSeq(kept, 1, IF Len(kept) < 40 THEN Len(kept) ELSE 40)

\* sanitizeStickerSetName: lowercase, strip all but [a-z0-9], first 40.
sanitizeStickerSetName(input) ==
    LET kept == SelectSeq(toLowerCase(input), IsLowerAlnum)
    IN SubSeq(kept, 1, IF Len(kept) < 40 THEN Len(kept) ELSE 40)

\* generateStickerSetName: `${base}_${randomSuffix}_by_${botUsername}`
generateStickerSetName(botUsername, title, randomSuffix) ==
    sanitizeStickerSetName(title) \o <<"_">> \o decimalString(randomSuffix)
        \o <<"_", "b", "y", "_">> \o botUsername

\* Does the pattern pat occur in str at index i, ignoring case (the /i flag)?
MatchesAt(str, i, pat) ==
    /\ i + Len(pat) - 1 <= Len(str)
    /\ \A j \in 1..Len(pat) : toLowerCaseChar(str[i + j - 1]) = pat[j]

\* The hosts of t(?:elegram)?\.(?:me|dog)\/addstickers\/
UrlHeads ==
    {<<"t", ".", "m", "e", "/", "a", "d", "d", "s", "t", "i", "c", "k", "e", "r", "s", "/">>,
     <<"t", ".", "d", "o", "g", "/", "a", "d", "d", "s", "t", "i", "c", "k", "e", "r", "s", "/">>,
     <<"t", "e", "l", "e", "g", "r", "a", "m", ".", "m", "e", "/",
       "a", "d", "d", "s", "t", "i", "c", "k", "e", "r", "s", "/">>,
     <<"t", "e", "l", "e", "g", "r", "a", "m", ".", "d", "o", "g", "/",
       "a", "d", "d", "s", "t", "i", "c", "k", "e", "r", "s", "/">>}

\* The longest run of [a-z0-9_] (any case, by the /i flag) from index i.
RECURSIVE slugRun(_, _)
slugRun(str, i) ==
    IF i <= Len(str) /\ IsSlugChar(toLowerCaseChar(str[i]))
    THEN <<str[i]>> \o slugRun(str, i + 1)
    ELSE <<>>

\* extractStickerSetName: a bare valid slug, or capture group 1 of the first
\* match of the addstickers URL pattern, or null.
extractStickerSetName(input) ==
    LET trimmed == trim(input)
        hits == {i \in 1..Len(trimmed) :
                    \E h \in UrlHeads : /\ MatchesAt(trimmed, i, h)
                                        /\ slugRun(trimmed, i + Len(h)) # <<>>}
    IN IF input = <<>> THEN NullStr
       ELSE IF isValidStickerSetName(trimmed) THEN trimmed
       ELSE IF hits # {}
            THEN LET i == CHOOSE x \in hits : \A y \in hits : x <= y
                     h == CHOOSE x \in UrlHeads : MatchesAt(trimmed, i, x)
                 IN slugRun(trimmed, i + Len(h))
       ELSE NullStr

(***************************************************************************)
(* The relational store: the four tables of initDatabase.                  *)
(*   users(user_id)                                                        *)
(*   sticker_packs(id, name UNIQUE, title, owner_id -> users,              *)
(*                 last_modified)                                          *)
(*   stickers(id, pack_id -> sticker_packs ON DELETE CASCADE, file_id,     *)
(*            position, type)                                              *)
(*   user_packs(user_id -> users, pack_id -> sticker_packs ON DELETE       *)
(*              CASCADE, can_edit, is_favorite, PK(user_id, pack_id))       *)
(***************************************************************************)
EmptyDb == [users |-> {}, sticker_packs |-> {}, stickers |-> {}, user_packs |-> {}]

generateRandomId(prefix, draw) == <<prefix, draw>>

\* The result of one statement: the rows afterwards and whether it threw.
Ok(d) == [db |-> d, failed |-> FALSE]
Fail(d) == [db |-> d, failed |-> TRUE]

PackById(d, packId) == {p \in d.sticker_packs : p.id = packId}
PackByName(d, packName) == {p \in d.sticker_packs : p.name = packName}
UserPackRow(d, userId, packId) ==
    {r \in d.user_packs : r.user_id = userId /\ r.pack_id = packId}

\* INSERT INTO users (user_id) VALUES (?)
InsertUser(d, userId) ==
    IF userId \in d.users THEN Fail(d)
    ELSE Ok([d EXCEPT !.users = @ \cup {userId}])

\* INSERT INTO sticker_packs (id, name, title, owner_id) VALUES (?, ?, ?, ?)
InsertStickerPack(d, packId, packName, packTitle, userId, t) ==
    IF \/ PackById(d, packId) # {}
       \/ PackByName(d, packName) # {}
       \/ userId \notin d.users
    THEN Fail(d)
    ELSE Ok([d EXCEPT !.sticker_packs = @ \cup
                {[id |-> packId, name |-> packName, title |-> packTitle,
                  owner_id |-> userId, last_modified |-> t]}])

\* INSERT INTO user_packs (user_id, pack_id, can_edit) VALUES (?, ?, ?)
InsertUserPack(d, userId, packId, canEdit) ==
    IF \/ UserPackRow(d, userId, packId) # {}
       \/ userId \notin d.users
       \/ PackById(d, packId) = {}
    THEN Fail(d)
    ELSE Ok([d EXCEPT !.user_packs = @ \cup
                {[user_id |-> userId, pack_id |-> packId,
                  can_edit |-> IF canEdit THEN 1 ELSE 0, is_favorite |-> 0]}])

\* INSERT INTO stickers (id, pack_id, file_id, emoji, position, type)
InsertSticker(d, stickerId, packId, fileId, position, type) ==
    IF \/ \E s \in d.stickers : s.id = stickerId
       \/ PackById(d, packId) = {}
    THEN Fail(d)
    ELSE Ok([d EXCEPT !.stickers = @ \cup
                {[id |-> stickerId, pack_id |-> packId, file_id |-> fileId,
                  position |-> position, type |-> type]}])

\* UPDATE sticker_packs SET last_modified = CURRENT_TIMESTAMP WHERE id = ?
TouchStickerPack(d, packId, t) ==
    Ok([d EXCEPT !.sticker_packs =
            {IF p.id = packId THEN [p EXCEPT !.last_modified = t] ELSE p : p \in @}])

\* DELETE FROM user_packs WHERE user_id = ? AND pack_id = ?
DeleteUserPack(d, userId, packId) ==
    Ok([d EXCEPT !.user_packs = @ \ UserPackRow(d, userId, packId)])

\* Mutant of DeleteStickerPack: the pack row goes, nothing cascades.
DeleteStickerPackNoCascade(d, packId) ==
    Ok([d EXCEPT !.sticker_packs = @ \ PackById(d, packId)])

\* DELETE FROM sticker_packs WHERE id = ?  (foreign keys cascade)
DeleteStickerPack(d, packId) ==
    Ok([d EXCEPT !.sticker_packs = @ \ PackById(d, packId),
                 !.stickers = {s \in @ : s.pack_id # packId},
                 !.user_packs = {r \in @ : r.pack_id # packId}])


(***************************************************************************)
(* The compound operations, one statement per step.  Every `await db.x`    *)
(* is a point where another operation's statement can run on the same      *)
(* connection.  The connection is either in autocommit mode or inside the   *)
(* one transaction SQLite allows per connection; snapshot holds the rows    *)
(* ROLLBACK restores.                                                      *)
(***************************************************************************)
NoId == <<"none", 0>>
NoConn == [inTxn |-> FALSE, snapshot |-> EmptyDb]

\* Ghost: which rows a running operation has inserted or deleted.
Key(tbl, userId, id) == [tbl |-> tbl, user |-> userId, id |-> id]
RowPresent(d, k) ==
    CASE k.tbl = "users" -> k.user \in d.users
      [] k.tbl = "sticker_packs" -> PackById(d, k.id) # {}
      [] k.tbl = "stickers" -> \E s \in d.stickers : s.id = k.id
      [] k.tbl = "user_packs" -> UserPackRow(d, k.user, k.id) # {}

IdleProc ==
    [op |-> "idle", pc |-> "idle", userId |-> 0, packName |-> <<>>,
     packTitle |-> <<>>, canEdit |-> FALSE, packId |-> NoId, fileId |-> <<<<>>, 0>>,
     position |-> 0, type |-> "static", existing |-> NoId, count |-> 0,
     failed |-> FALSE, faulted |-> "none",
     ret |-> NoId, inserted |-> {}, deleted |-> {}]

\* A db.run: throws without writing when the fault f is injected at this
\* statement, else runs the statement.
Run(pr, f, res, d) == IF f = pr.pc THEN Fail(d) ELSE res

\* Continue after a statement: an exception unwinds to withTransaction's catch.
After(pr, f, res, nextPc, ins, del) ==
    IF res.failed
    THEN [pr |-> [pr EXCEPT !.pc = "rollback", !.failed = TRUE,
                            !.faulted = IF f = pr.pc THEN f ELSE @],
          db |-> res.db]
    ELSE [pr |-> [pr EXCEPT !.pc = nextPc, !.inserted = @ \cup ins,
                            !.deleted = @ \cup del],
          db |-> res.db]

Goto(pr, nextPc, d) == [pr |-> [pr EXCEPT !.pc = nextPc], db |-> d]

\* Mutant of addStickerPackStep: the membership of an existing pack is
\* inserted without looking for the row first.
addStickerPackStepNoLookup(pr, d, t, f, k) ==
    CASE pr.pc = "asp_getUser" ->
            Goto(pr, IF pr.userId \in d.users THEN "asp_getPack" ELSE "asp_insUser", d)
      [] pr.pc = "asp_insUser" ->
            After(pr, f, Run(pr, f, InsertUser(d, pr.userId), d), "asp_getPack",
                  {Key("users", pr.userId, NoId)}, {})
      [] pr.pc = "asp_getPack" ->
            IF PackByName(d, pr.packName) # {}
            THEN Goto([pr EXCEPT !.existing = (CHOOSE p \in PackByName(d, pr.packName) : TRUE).id],
                      "asp_getUserPack", d)
            ELSE Goto([pr EXCEPT !.packId = generateRandomId("pack_", k)],
                      "asp_insPack", d)
      [] pr.pc = "asp_getUserPack" ->
            Goto(pr, "asp_linkExisting", d)
      [] pr.pc = "asp_linkExisting" ->
            After([pr EXCEPT !.ret = pr.existing], f,
                  Run(pr, f, InsertUserPack(d, pr.userId, pr.existing, pr.canEdit), d),
                  "commit", {Key("user_packs", pr.userId, pr.existing)}, {})
      [] pr.pc = "asp_insPack" ->
            After(pr, f, Run(pr, f, InsertStickerPack(d, pr.packId, pr.packName, pr.packTitle,
                                                pr.userId, t), d),
                  "asp_insUserPack", {Key("sticker_packs", 0, pr.packId)}, {})
      [] pr.pc = "asp_insUserPack" ->
            After([pr EXCEPT !.ret = pr.packId], f,
                  Run(pr, f, InsertUserPack(d, pr.userId, pr.packId, pr.canEdit), d),
                  "commit", {Key("user_packs", pr.userId, pr.packId)}, {})

\* addStickerPack, statement by statement.
addStickerPackStep(pr, d, t, f, k) ==
    CASE pr.pc = "asp_getUser" ->
            Goto(pr, IF pr.userId \in d.users THEN "asp_getPack" ELSE "asp_insUser", d)
      [] pr.pc = "asp_insUser" ->
            After(pr, f, Run(pr, f, InsertUser(d, pr.userId), d), "asp_getPack",
                  {Key("users", pr.userId, NoId)}, {})
      [] pr.pc = "asp_getPack" ->
            IF PackByName(d, pr.packName) # {}
            THEN Goto([pr EXCEPT !.existing = (CHOOSE p \in PackByName(d, pr.packName) : TRUE).id],
                      "asp_getUserPack", d)
            ELSE Goto([pr EXCEPT !.packId = generateRandomId("pack_", k)],
                      "asp_insPack", d)
      [] pr.pc = "asp_getUserPack" ->
            IF UserPackRow(d, pr.userId, pr.existing) = {}
            THEN Goto(pr, "asp_linkExisting", d)
            ELSE Goto([pr EXCEPT !.ret = pr.existing], "commit", d)
      [] pr.pc = "asp_linkExisting" ->
            After([pr EXCEPT !.ret = pr.existing], f,
                  Run(pr, f, InsertUserPack(d, pr.userId, pr.existing, pr.canEdit), d),
                  "commit", {Key("user_packs", pr.userId, pr.existing)}, {})
      [] pr.pc = "asp_insPack" ->
            After(pr, f, Run(pr, f, InsertStickerPack(d, pr.packId, pr.packName, pr.packTitle,
                                                pr.userId, t), d),
                  "asp_insUserPack", {Key("sticker_packs", 0, pr.packId)}, {})
      [] pr.pc = "asp_insUserPack" ->
            After([pr EXCEPT !.ret = pr.packId], f,
                  Run(pr, f, InsertUserPack(d, pr.userId, pr.packId, pr.canEdit), d),
                  "commit", {Key("user_packs", pr.userId, pr.packId)}, {})

addStickerToDatabaseStep(pr, d, t, f, k) ==
    CASE pr.pc = "asd_insSticker" ->
            After(pr, f, Run(pr, f, InsertSticker(d, generateRandomId("sticker_", k),
                                            pr.packId, pr.fileId, pr.position, pr.type), d),
                  "asd_touchPack", {Key("stickers", 0, generateRandomId("sticker_", k))}, {})
      [] pr.pc = "asd_touchPack" ->
            After([pr EXCEPT !.ret = generateRandomId("sticker_", k)], f,
                  Run(pr, f, TouchStickerPack(d, pr.packId, t), d), "commit", {}, {})

removeUserPackStep(pr, d, t, f, k) ==
    CASE pr.pc = "rup_delUserPack" ->
            After(pr, f, Run(pr, f, DeleteUserPack(d, pr.userId, pr.packId), d), "rup_count",
                  {}, {x \in {Key("user_packs", pr.userId, pr.packId)} : RowPresent(d, x)})
      [] pr.pc = "rup_count" ->
            LET n == Cardinality({r \in d.user_packs : r.pack_id = pr.packId})
            IN Goto([pr EXCEPT !.count = n], IF n = 0 THEN "rup_getPack" ELSE "commit", d)
      [] pr.pc = "rup_getPack" ->
            LET pack == PackById(d, pr.packId)
            IN IF pack = {} \/ (\E p \in pack : p.owner_id = pr.userId)
               THEN Goto(pr, "rup_delPack", d)
               ELSE Goto(pr, "commit", d)
      [] pr.pc = "rup_delPack" ->
            After(pr, f, Run(pr, f, DeleteStickerPack(d, pr.packId), d), "commit",
                  {}, {x \in {Key("sticker_packs", 0, pr.packId)} : RowPresent(d, x)})

FirstPc(op) ==
    CASE op = "addStickerPack" -> "asp_getUser"
      [] op = "addStickerToDatabase" -> "asd_insSticker"
      [] op = "removeUserPack" -> "rup_delUserPack"

operationStep(pr, d, t, f, k) ==
    CASE pr.op = "addStickerPack" -> addStickerPackStep(pr, d, t, f, k)
      [] pr.op = "addStickerToDatabase" -> addStickerToDatabaseStep(pr, d, t, f, k)
      [] pr.op = "removeUserPack" -> removeUserPackStep(pr, d, t, f, k)

\* Mutant of rollback: the catch block forgets the ROLLBACK.
rollbackForgotten(d, c) == d

\* ROLLBACK: restores the rows of the open transaction; with no transaction
\* open it fails, which withTransaction logs and swallows.
rollback(d, c) == IF c.inTxn THEN c.snapshot ELSE d

\* One statement of withTransaction(operation) on the shared connection c.
withTransactionStep(pr, d, c, t, f, k) ==
    CASE pr.pc = "begin" ->
            IF c.inTxn
            THEN [pr |-> [pr EXCEPT !.pc = "rollback", !.failed = TRUE], db |-> d, conn |-> c]
            ELSE [pr |-> [pr EXCEPT !.pc = FirstPc(pr.op)], db |-> d,
                  conn |-> [inTxn |-> TRUE, snapshot |-> d]]
      [] pr.pc = "commit" ->
            IF c.inTxn
            THEN [pr |-> [pr EXCEPT !.pc = "done"], db |-> d, conn |-> NoConn]
            ELSE [pr |-> [pr EXCEPT !.pc = "rollback", !.failed = TRUE], db |-> d, conn |-> c]
      [] pr.pc = "rollback" ->
            [pr |-> [pr EXCEPT !.pc = "done"], db |-> rollback(d, c), conn |-> NoConn]
      [] OTHER ->
            LET r == operationStep(pr, d, t, f, k)
            IN [pr |-> r.pr, db |-> r.db, conn |-> c]

\* An operation run from BEGIN to its return or throw with nothing interleaved.
RECURSIVE runToEnd(_, _, _, _, _, _)
runToEnd(pr, d, c, t, f, k) ==
    IF pr.pc = "done" THEN [pr |-> pr, db |-> d, conn |-> c]
    ELSE LET r == withTransactionStep(pr, d, c, t, f, k)
         IN runToEnd(r.pr, r.db, r.conn, t, f, k)


(***************************************************************************)
(* The conversation engine.  A handler is a function of the context x it   *)
(* runs in:                                                                *)
(*   s        the chat's session, as getSession returned it                *)
(*   db       the repository rows                                          *)
(*   platform the sticker sets on the messaging platform                   *)
(*   files    the files present in the temp directory                      *)
(*   calls, attempts, imported, error   what the handler did               *)
(* The outcome o names the one external step that fails while the event    *)
(* is handled ("none", "convert", "api", "getStickerSet", "sendDocument",  *)
(* or a db.run statement), k is the draw of generateRandomId and t the     *)
(* clock.  lastAction and messageId are never read and are left out; the   *)
(* emoji, is_animated and is_video columns are left out as well.           *)
(***************************************************************************)
BotUsername == <<"b", "o", "t">>

\* getSession's object literal: packCreationStep, currentPackName and
\* packTitle do not exist yet.
NewSession(t) ==
    [mode |-> "null", packCreationStep |-> "undefined",
     currentPackName |-> UndefinedStr, packTitle |-> UndefinedStr,
     images |-> <<>>, timestamp |-> t]

\* getSession(chatId): the table after the call.
getSession(ss, chatId, t) ==
    [c \in DOMAIN ss \cup {chatId} |->
        IF c = chatId
        THEN [(IF chatId \in DOMAIN ss THEN ss[chatId] ELSE NewSession(t))
                EXCEPT !.timestamp = t]
        ELSE ss[c]]

\* canUserEditPack: userPack?.can_edit === 1 || pack.owner_id === userId
canUserEditPack(d, userId, packName) ==
    \E p \in PackByName(d, packName) :
        \/ \E r \in UserPackRow(d, userId, p.id) : r.can_edit = 1
        \/ p.owner_id = userId

\* The repository operations, each run from BEGIN to its end.
addStickerPack(d, userId, packName, packTitle, canEdit, t, f, k) ==
    runToEnd([IdleProc EXCEPT !.op = "addStickerPack", !.pc = "begin",
                              !.userId = userId, !.packName = packName,
                              !.packTitle = packTitle, !.canEdit = canEdit],
             d, NoConn, t, f, k)

addStickerToDatabase(d, packId, fileId, position, type, t, f, k) ==
    runToEnd([IdleProc EXCEPT !.op = "addStickerToDatabase", !.pc = "begin",
                              !.packId = packId, !.fileId = fileId,
                              !.position = position, !.type = type],
             d, NoConn, t, f, k)

removeUserPack(d, userId, packId, t, f, k) ==
    runToEnd([IdleProc EXCEPT !.op = "removeUserPack", !.pc = "begin",
                              !.userId = userId, !.packId = packId],
             d, NoConn, t, f, k)

\* parseInt of an id made by generateRandomId('pack_'): not a number.
NaN == <<"NaN", 0>>
parseInt(id) == IF id[1] \in {"pack_", "sticker_", "none", "NaN"} THEN NaN ELSE id

\* toggleFavoritePack(userId, packId): one transaction that reads the
\* membership row, throws when there is none and writes is_favorite
\* inverted.
toggleFavoritePack(d, userId, packId) ==
    IF UserPackRow(d, userId, packId) = {} THEN Fail(d)
    ELSE Ok([d EXCEPT !.user_packs =
                {IF r.user_id = userId /\ r.pack_id = packId
                 THEN [r EXCEPT !.is_favorite = IF @ = 1 THEN 0 ELSE 1]
                 ELSE r : r \in d.user_packs}])

\* `${prefix}-${userId}-${Date.now()}.${extension}` in the temp directory
generateUniqueFilename(prefix, extension, userId, t) ==
    [prefix |-> prefix, userId |-> userId, timestamp |-> t, extension |-> extension]

\* fs.writeFileSync of a staged file
createTempFile(x, file) == [x EXCEPT !.files = @ \cup {file}]

\* safeDeleteFile: unlink if present, no error if absent.
safeDeleteFile(x, file) == [x EXCEPT !.files = @ \ {file}]

\* ctx.reply / ctx.replyWithDocument.  Of the replies, the context keeps
\* the kind: "select_mode" (the prompt to select a mode first), "menu" (the
\* menu of modes), "document" (a converted file sent back), "too_short"
\* and "name_ready" (the answers to a pack title), "created" (the pack was
\* created with its first sticker), "added" (the sticker was added),
\* "updated" (adding is finished), "cancelled", and "error" (a reply that
\* reports err.message).
Reply(x, kind) == [x EXCEPT !.replies = @ \cup {kind}]

\* A conversion is run: the file is downloaded and handed to the converter.
Convert(x) == [x EXCEPT !.converted = TRUE]

Return(x) == [x |-> x, thrown |-> FALSE]
\* Of the errors, out keeps the permission error.
Throw(x, message) ==
    [x |-> [x EXCEPT !.error = IF message = "permission" THEN message ELSE @],
     thrown |-> TRUE]

\* The platform's sticker sets: name -> title, stickers (a count; the i-th
\* sticker's file_id is <<name, i>>), user_id (0: not made by this bot).
FileIdOf(name, i) == <<name, i>>
ApiCall(api, userId, name) == [api |-> api, userId |-> userId, name |-> name]

\* createStickerSet(ctx, name, title, firstStickerPath, emoji, stickerType)
createStickerSet(x, userId, name, title, firstStickerPath, stickerType, o, k, t) ==
    IF ~isValidStickerSetName(name) THEN Throw(x, "invalid name")
    ELSE IF firstStickerPath \notin x.files THEN Throw(x, "file not found")
    ELSE
    IF o = "api" \/ name \in DOMAIN x.platform THEN Throw(x, "api")
       ELSE
       LET made == [x EXCEPT !.platform =
                        [n \in DOMAIN @ \cup {name} |->
                            IF n = name
                            THEN [title |-> title, stickers |-> 1, user_id |-> userId]
                            ELSE @[n]]]
           saved == addStickerPack(made.db, userId, name, title, TRUE, t, o, k)
       IN IF saved.pr.failed THEN Throw([made EXCEPT !.db = saved.db], "database")
          ELSE
          LET first == IF o = "getStickerSet"
                       THEN saved.db
                       ELSE addStickerToDatabase(saved.db, saved.pr.ret, FileIdOf(name, 1),
                                                 0, stickerType, t, o, k).db
          IN Return(safeDeleteFile([made EXCEPT !.db = first], firstStickerPath))

\* Mutant of addStickerToSet: the permission check is gone.
addStickerToSetUnchecked(x, userId, setName, stickerPath, stickerType, o, k, t) ==
    LET tried == [x EXCEPT !.attempts = @ \cup {ApiCall("addStickerToSet", userId, setName)}]
    IN IF stickerPath \notin tried.files THEN Throw(tried, "file not found")
    ELSE
    LET called == [tried EXCEPT !.calls = @ \cup {ApiCall("addStickerToSet", userId, setName)}]
    IN IF \/ o = "api"
          \/ setName \notin DOMAIN called.platform
          \/ called.platform[setName].stickers >= MaxSetSize
       THEN Throw(called, "api")
       ELSE
       LET added == [called EXCEPT !.platform[setName].stickers = @ + 1]
           pack == PackByName(added.db, setName)
           position == added.platform[setName].stickers - 1
           recorded == IF pack = {} \/ o = "getStickerSet"
                       THEN added.db
                       ELSE addStickerToDatabase(added.db, (CHOOSE p \in pack : TRUE).id,
                                                 FileIdOf(setName, position + 1),
                                                 position, stickerType, t, o, k).db
       IN Return(safeDeleteFile([added EXCEPT !.db = recorded], stickerPath))

\* addStickerToSet(ctx, setName, stickerPath, emoji, stickerType)
addStickerToSet(x, userId, setName, stickerPath, stickerType, o, k, t) ==
    LET tried == [x EXCEPT !.attempts = @ \cup {ApiCall("addStickerToSet", userId, setName)}]
    IN IF ~canUserEditPack(tried.db, userId, setName) THEN Throw(tried, "permission")
    ELSE IF stickerPath \notin tried.files THEN Throw(tried, "file not found")
    ELSE
    LET called == [tried EXCEPT !.calls = @ \cup {ApiCall("addStickerToSet", userId, setName)}]
    IN IF \/ o = "api"
          \/ setName \notin DOMAIN called.platform
          \/ called.platform[setName].stickers >= MaxSetSize
       THEN Throw(called, "api")
       ELSE
       LET added == [called EXCEPT !.platform[setName].stickers = @ + 1]
           pack == PackByName(added.db, setName)
           position == added.platform[setName].stickers - 1
           recorded == IF pack = {} \/ o = "getStickerSet"
                       THEN added.db
                       ELSE addStickerToDatabase(added.db, (CHOOSE p \in pack : TRUE).id,
                                                 FileIdOf(setName, position + 1),
                                                 position, stickerType, t, o, k).db
       IN Return(safeDeleteFile([added EXCEPT !.db = recorded], stickerPath))

\* addExternalStickerPack(ctx, packName): the title comes from the platform
\* when getStickerSet answers, else it is the name.
addExternalStickerPack(x, userId, packName, o, k, t) ==
    LET packTitle == IF o # "getStickerSet" /\ packName \in DOMAIN x.platform
                     THEN x.platform[packName].title
                     ELSE packName
        saved == addStickerPack(x.db, userId, packName, packTitle, FALSE, t, o, k)
        after == [x EXCEPT !.db = saved.db,
                           !.imported = @ \cup {ApiCall("import", userId, packName)}]
    IN IF saved.pr.failed THEN Throw(after, "database") ELSE Return(after)

\* The import branch shared by handleText and handleSticker.
handleExternalPack(x, userId, packName, o, k, t) ==
    LET r == addExternalStickerPack(x, userId, packName, o, k, t)
    IN IF r.thrown
       THEN Reply([r.x EXCEPT !.s.packCreationStep = "null"], "error")
       ELSE IF canUserEditPack(r.x.db, userId, packName)
            THEN [r.x EXCEPT !.s.currentPackName = packName,
                             !.s.packCreationStep = "adding_stickers"]
            ELSE [r.x EXCEPT !.s.packCreationStep = "null"]

\* The inbound media: a photo, a document (by MIME type) or a sticker.
Photo == [kind |-> "photo", mime_type |-> "", is_animated |-> FALSE,
          set_name |-> UndefinedStr]
Document(mime) == [kind |-> "document", mime_type |-> mime, is_animated |-> FALSE,
                   set_name |-> UndefinedStr]
Sticker(animated, setName) == [kind |-> "sticker", mime_type |-> "",
                               is_animated |-> animated, set_name |-> setName]

\* The sticker type handleStickerForPack derives from the message.
stickerTypeOf(m) ==
    IF m.kind = "document" /\ m.mime_type = "application/x-tgsticker" THEN "animated"
    ELSE IF m.kind = "sticker" /\ m.is_animated THEN "animated"
    ELSE "static"

\* The entry handlePhotoDocument buffers in session.images.
imageEntry(m) ==
    IF m.kind = "photo"
    THEN [fileId |-> "photo", fileSize |-> 1]
    ELSE [fileId |-> "document", fileName |-> "upload", fileSize |-> 1]

\* Mutant of handleStickerForPack: packCreationStep is set before
\* createStickerSet is awaited.
handleStickerForPackStepFirst(x, userId, m, o, k, t) ==
    LET stickerType == stickerTypeOf(m)
        filePath == IF stickerType = "animated"
                    THEN generateUniqueFilename("animated", "tgs", userId, t)
                    ELSE generateUniqueFilename("sticker", "webp", userId, t)
    IN IF o = "convert" THEN Reply(Convert(x), "error")
       ELSE
       LET staged == createTempFile(Convert(x), filePath)
       IN IF staged.s.packCreationStep = "waiting_first_sticker"
          THEN LET r == createStickerSet(staged, userId, staged.s.currentPackName,
                                         staged.s.packTitle, filePath, stickerType, o, k, t)
               IN IF r.thrown
                  THEN Reply([r.x EXCEPT !.s.packCreationStep = "adding_stickers"], "error")
                  ELSE safeDeleteFile(
                           Reply([r.x EXCEPT !.s.packCreationStep = "adding_stickers"],
                                 "created"),
                           filePath)
          ELSE LET r == addStickerToSet(staged, userId, staged.s.currentPackName,
                                        filePath, stickerType, o, k, t)
               IN IF r.thrown THEN Reply(r.x, "error")
                  ELSE safeDeleteFile(Reply(r.x, "added"), filePath)

\* handleStickerForPack: stage the converted file, publish it, delete it.
handleStickerForPack(x, userId, m, o, k, t) ==
    LET stickerType == stickerTypeOf(m)
        filePath == IF stickerType = "animated"
                    THEN generateUniqueFilename("animated", "tgs", userId, t)
                    ELSE generateUniqueFilename("sticker", "webp", userId, t)
    IN IF o = "convert" THEN Reply(Convert(x), "error")
       ELSE
       LET staged == createTempFile(Convert(x), filePath)
       IN IF staged.s.packCreationStep = "waiting_first_sticker"
          THEN LET r == createStickerSet(staged, userId, staged.s.currentPackName,
                                         staged.s.packTitle, filePath, stickerType, o, k, t)
               IN IF r.thrown THEN Reply(r.x, "error")
                  ELSE safeDeleteFile(
                           Reply([r.x EXCEPT !.s.packCreationStep = "adding_stickers"],
                                 "created"),
                           filePath)
          ELSE LET r == addStickerToSet(staged, userId, staged.s.currentPackName,
                                        filePath, stickerType, o, k, t)
               IN IF r.thrown THEN Reply(r.x, "error")
                  ELSE safeDeleteFile(Reply(r.x, "added"), filePath)

\* The icon branch of handlePhotoDocument and handleSticker: write the
\* resized file, send it, delete it; the catch only replies.
iconReply(x, userId, o, t) ==
    LET filePath == generateUniqueFilename("icon", "webp", userId, t)
    IN IF o = "convert" THEN Reply(Convert(x), "error")
       ELSE IF o = "sendDocument"
            THEN Reply(createTempFile(Convert(x), filePath), "error")
            ELSE safeDeleteFile(Reply(createTempFile(Convert(x), filePath), "document"),
                                filePath)

\* processImages on the one buffered entry: convert it and send the buffer
\* back; a failure is recorded in the result, no file is written.
standardReply(x, o) ==
    IF o \in {"convert", "sendDocument"} THEN Convert(x)
    ELSE Reply(Convert(x), "document")

InPackUpload(s) ==
    /\ s.mode = "packs"
    /\ s.packCreationStep \in {"adding_stickers", "waiting_first_sticker"}

\* handlePhotoDocument
handlePhotoDocument(x, userId, m, o, k, t) ==
    IF x.s.mode = "null" THEN Reply(x, "select_mode")
    ELSE IF InPackUpload(x.s) THEN handleStickerForPack(x, userId, m, o, k, t)
    ELSE IF m.kind = "document" /\ m.mime_type = "image/webp" /\ x.s.mode = "icon"
         THEN iconReply(x, userId, o, t)
    ELSE standardReply([x EXCEPT !.s.images = <<imageEntry(m)>>], o)

\* handleSticker
handleSticker(x, userId, m, o, k, t) ==
    IF InPackUpload(x.s) THEN handleStickerForPack(x, userId, m, o, k, t)
    ELSE IF x.s.mode = "packs" /\ x.s.packCreationStep = "awaiting_external_pack"
         THEN IF m.set_name = UndefinedStr THEN x
              ELSE handleExternalPack(x, userId, m.set_name, o, k, t)
    ELSE IF m.is_animated THEN x
    ELSE IF x.s.mode = "icon" THEN iconReply(x, userId, o, t)
    ELSE LET filePath == generateUniqueFilename("sticker", "webp", userId, t)
         IN IF o = "convert" THEN Reply(Convert(x), "error")
            ELSE IF o = "sendDocument"
                 THEN Reply(createTempFile(Convert(x), filePath), "error")
                 ELSE safeDeleteFile(
                          Reply(createTempFile(Convert(x), filePath), "document"),
                          filePath)

\* Mutant of handleText: the title is taken as typed, not trimmed.
handleTextUntrimmed(x, userId, message, r, o, k, t) ==
    IF x.s.mode = "packs" /\ x.s.packCreationStep = "awaiting_name"
    THEN LET packTitle == message
         IN IF Len(packTitle) < 3 THEN Reply(x, "too_short")
            ELSE Reply([x EXCEPT !.s.currentPackName =
                                     generateStickerSetName(BotUsername, packTitle, r),
                                 !.s.packTitle = packTitle,
                                 !.s.packCreationStep = "waiting_first_sticker"],
                       "name_ready")
    ELSE IF x.s.mode = "packs" /\ x.s.packCreationStep = "awaiting_external_pack"
    THEN LET packName == extractStickerSetName(trim(message))
         IN IF packName = NullStr THEN x
            ELSE handleExternalPack(x, userId, packName, o, k, t)
    ELSE x

\* handleText; r is the draw of Math.floor(Math.random() * 1000).
handleText(x, userId, message, r, o, k, t) ==
    IF x.s.mode = "packs" /\ x.s.packCreationStep = "awaiting_name"
    THEN LET packTitle == trim(message)
         IN IF Len(packTitle) < 3 THEN Reply(x, "too_short")
            ELSE Reply([x EXCEPT !.s.currentPackName =
                                     generateStickerSetName(BotUsername, packTitle, r),
                                 !.s.packTitle = packTitle,
                                 !.s.packCreationStep = "waiting_first_sticker"],
                       "name_ready")
    ELSE IF x.s.mode = "packs" /\ x.s.packCreationStep = "awaiting_external_pack"
    THEN LET packName == extractStickerSetName(trim(message))
         IN IF packName = NullStr THEN x
            ELSE handleExternalPack(x, userId, packName, o, k, t)
    ELSE x

\* handleStart
handleStart(x) ==
    Reply([x EXCEPT !.s.mode = "null", !.s.currentPackName = NullStr,
                    !.s.packCreationStep = "null"], "menu")

\* Mutant of handleCancel: the pack name is reset and the step is kept.
handleCancelKeepsStep(x) == [x EXCEPT !.s.currentPackName = NullStr]

\* Mutant of handleCancel: the mode is reset with the step and the name.
handleCancelResetsMode(x) ==
    Reply([x EXCEPT !.s.packCreationStep = "null", !.s.currentPackName = NullStr,
                    !.s.mode = "null"],
          "cancelled")

\* handleCancel
handleCancel(x) ==
    Reply([x EXCEPT !.s.packCreationStep = "null", !.s.currentPackName = NullStr],
          "cancelled")

\* Callback data: the action and, after the colon, its argument.
Action(name, arg) == [name |-> name, arg |-> arg]

\* Mutant of handleCallback: finish_adding resets the step and keeps the
\* pack name.
handleCallbackFinishKeepsName(x, userId, action, o, k, t) ==
    CASE action.name = "select_icon" -> [x EXCEPT !.s.mode = "icon"]
      [] action.name = "select_sticker" -> [x EXCEPT !.s.mode = "sticker"]
      [] action.name = "select_packs" -> [x EXCEPT !.s.mode = "packs"]
      [] action.name = "start_over" ->
            Reply([x EXCEPT !.s.mode = "null", !.s.currentPackName = NullStr,
                            !.s.packCreationStep = "null"], "menu")
      [] action.name = "create_pack" ->
            [x EXCEPT !.s.packCreationStep = "awaiting_name"]
      [] action.name = "add_external_pack" ->
            [x EXCEPT !.s.packCreationStep = "awaiting_external_pack"]
      [] action.name = "select_pack" ->
            IF canUserEditPack(x.db, userId, action.arg)
            THEN [x EXCEPT !.s.currentPackName = action.arg,
                           !.s.packCreationStep = "adding_stickers"]
            ELSE x
      [] action.name = "toggle_favorite" ->
            LET r == toggleFavoritePack(x.db, userId, parseInt(action.arg))
            IN IF r.failed THEN Reply(x, "error") ELSE [x EXCEPT !.db = r.db]
      [] action.name = "remove_pack" ->
            LET r == removeUserPack(x.db, userId, parseInt(action.arg), t, o, k)
            IN IF r.pr.failed THEN Reply([x EXCEPT !.db = r.db], "error")
               ELSE [x EXCEPT !.db = r.db]
      [] action.name = "finish_adding" ->
            Reply([x EXCEPT !.s.packCreationStep = "null"], "updated")
      [] OTHER -> x

\* handleCallback: handleModeSelection, handlePostProcessCallbacks and
\* handlePackCallbacks tried in this order.
handleCallback(x, userId, action, o, k, t) ==
    CASE action.name = "select_icon" -> [x EXCEPT !.s.mode = "icon"]
      [] action.name = "select_sticker" -> [x EXCEPT !.s.mode = "sticker"]
      [] action.name = "select_packs" -> [x EXCEPT !.s.mode = "packs"]
      [] action.name = "start_over" ->
            Reply([x EXCEPT !.s.mode = "null", !.s.currentPackName = NullStr,
                            !.s.packCreationStep = "null"], "menu")
      [] action.name = "create_pack" ->
            [x EXCEPT !.s.packCreationStep = "awaiting_name"]
      [] action.name = "add_external_pack" ->
            [x EXCEPT !.s.packCreationStep = "awaiting_external_pack"]
      [] action.name = "select_pack" ->
            IF canUserEditPack(x.db, userId, action.arg)
            THEN [x EXCEPT !.s.currentPackName = action.arg,
                           !.s.packCreationStep = "adding_stickers"]
            ELSE x
      [] action.name = "toggle_favorite" ->
            LET r == toggleFavoritePack(x.db, userId, parseInt(action.arg))
            IN IF r.failed THEN Reply(x, "error") ELSE [x EXCEPT !.db = r.db]
      [] action.name = "remove_pack" ->
            LET r == removeUserPack(x.db, userId, parseInt(action.arg), t, o, k)
            IN IF r.pr.failed THEN Reply([x EXCEPT !.db = r.db], "error")
               ELSE [x EXCEPT !.db = r.db]
      [] action.name = "finish_adding" ->
            Reply([x EXCEPT !.s.packCreationStep = "null", !.s.currentPackName = NullStr],
                  "updated")
      [] OTHER -> x

(***************************************************************************)
(* The session sweep.  Object.keys lists integer keys in ascending order;  *)
(* path.join throws a TypeError when image.filename is undefined, which    *)
(* ends the forEach and the sweep where it stands.                         *)
(***************************************************************************)
RECURSIVE sortedKeys(_)
sortedKeys(keys) ==
    IF keys = {} THEN <<>>
    ELSE LET c == CHOOSE a \in keys : \A b \in keys : a <= b
         IN <<c>> \o sortedKeys(keys \ {c})

\* sessions[chatId].images.forEach(...): the files left, and whether it threw.
RECURSIVE deleteImages(_, _)
deleteImages(images, files) ==
    IF images = <<>> THEN [files |-> files, thrown |-> FALSE]
    ELSE IF "filename" \notin DOMAIN Head(images)
         THEN [files |-> files, thrown |-> TRUE]
         ELSE deleteImages(Tail(images), files \ {Head(images).filename})

\* Mutant of isExpired: a session exactly SESSION_MAX_AGE old is purged too.
isExpiredAtThreshold(session, t) == t - session.timestamp >= SESSION_MAX_AGE

\* now - sessions[chatId].timestamp > 21600000
isExpired(session, t) == t - session.timestamp > SESSION_MAX_AGE

RECURSIVE purgeFrom(_, _, _, _)
purgeFrom(ss, files, keys, t) ==
    IF keys = <<>> THEN [sessions |-> ss, files |-> files, thrown |-> FALSE]
    ELSE LET chatId == Head(keys)
         IN IF isExpired(ss[chatId], t)
            THEN LET r == deleteImages(ss[chatId].images, files)
                 IN IF r.thrown
                    THEN [sessions |-> ss, files |-> r.files, thrown |-> TRUE]
                    ELSE purgeFrom([c \in DOMAIN ss \ {chatId} |-> ss[c]], r.files,
                                   Tail(keys), t)
            ELSE purgeFrom(ss, files, Tail(keys), t)

\* purgeSessions
purgeSessions(ss, files, t) == purgeFrom(ss, files, sortedKeys(DOMAIN ss), t)

(***************************************************************************)
(* State.                                                                  *)
(***************************************************************************)
VARIABLES
    db,          \* the rows the shared connection sees
    conn,        \* the shared connection: inTxn, snapshot
    procs,       \* the compound operations in flight, one per caller
    opsStarted,  \* how many compound operations were started
    now,         \* the wall clock, in ms
    sessions,    \* the session table: chat id -> session
    platform,    \* the platform's sticker sets: name -> title, stickers, user_id
    tempFiles,   \* the files in the temp directory
    out,         \* what the last handled event did (ghost)
    nextSweep,   \* when the setInterval timer of purgeSessions fires next
    job          \* the call of a library function under way: arguments, result

engineVars == <<sessions, platform, tempFiles, out, nextSweep, job>>
vars == <<db, conn, procs, opsStarted, now, sessions, platform, tempFiles, out, nextSweep,
          job>>

Chats == 1..MaxChats

\* A set that exists on the platform and was not made through the bot.
ExternalSetName == <<"e", "x">>
ExternalSet == [title |-> <<"e", "x">>, stickers |-> 1, user_id |-> 0]

NoOut == [chat |-> 0, calls |-> {}, attempts |-> {}, imported |-> {}, error |-> "none",
          replies |-> {}]

\* Of the replies of the last event, out keeps those that open or close a
\* flow of the conversation.
FlowReplies == {"menu", "name_ready", "updated", "cancelled"}

\* No library call is under way.
NoJob == [call |-> "none"]

\* The slugs and titles the repository operations are called with.
TxnNames == {<<"p", "1">>}
TxnPackIds == {generateRandomId("pack_", k) : k \in IdDraws}

Init ==
    /\ db = EmptyDb
    /\ conn = NoConn
    /\ procs = [p \in Procs |-> IdleProc]
    /\ opsStarted = 0
    /\ now = 0
    /\ sessions = <<>>
    /\ platform = [n \in {ExternalSetName} |-> ExternalSet]
    /\ tempFiles = {}
    /\ out = NoOut
    /\ nextSweep = PURGE_INTERVAL
    /\ job = NoJob

Quiet == \A q \in Procs : procs[q].pc = "idle"

Launch(p, pr) ==
    /\ procs[p].pc = "idle"
    /\ procs' = [procs EXCEPT ![p] = pr]
    /\ opsStarted' = opsStarted + 1
    /\ UNCHANGED <<db, conn, now, engineVars>>

\* A caller invokes addStickerPack(userId, packName, packTitle, canEdit).
CallAddStickerPack(p) ==
    \E u \in Users, n \in TxnNames, e \in BOOLEAN :
        Launch(p, [IdleProc EXCEPT !.op = "addStickerPack", !.pc = "begin",
                                   !.userId = u, !.packName = n, !.packTitle = n,
                                   !.canEdit = e])

\* A caller invokes addStickerToDatabase(packId, fileId, emoji, position, type).
CallAddStickerToDatabase(p) ==
    \E id \in TxnPackIds :
        Launch(p, [IdleProc EXCEPT !.op = "addStickerToDatabase", !.pc = "begin",
                                   !.packId = id, !.fileId = FileIdOf(<<"f">>, 1)])

\* A caller invokes removeUserPack(userId, packId).
CallRemoveUserPack(p) ==
    \E u \in Users, id \in TxnPackIds :
        Launch(p, [IdleProc EXCEPT !.op = "removeUserPack", !.pc = "begin",
                                   !.userId = u, !.packId = id])

\* The statements a simulated fault can hit: the db.run calls.
WritePcs == {"asp_insUser", "asp_insPack", "asp_insUserPack", "asp_linkExisting",
             "asd_insSticker", "asd_touchPack", "rup_delUserPack", "rup_delPack"}

\* The next statement of operation p runs on the connection, with or without
\* a fault, and with any draw of the random id.
Step(p) ==
    /\ procs[p].pc \notin {"idle", "done"}
    /\ \E f \in {"none", procs[p].pc} \cap ({"none"} \cup WritePcs), k \in IdDraws :
        LET r == withTransactionStep(procs[p], db, conn, now, f, k)
        IN /\ procs' = [procs EXCEPT ![p] = r.pr]
           /\ db' = r.db
           /\ conn' = r.conn
    /\ UNCHANGED <<opsStarted, now, engineVars>>

\* The caller of operation p takes its result or its exception.
Finish(p) ==
    /\ procs[p].pc = "done"
    /\ procs' = [procs EXCEPT ![p] = IdleProc]
    /\ UNCHANGED <<db, conn, opsStarted, now, engineVars>>

\* Callers in different chats: their operations interleave at the awaits.
StartAddStickerPack(p) == opsStarted < MaxOps /\ CallAddStickerPack(p)
StartAddStickerToDatabase(p) == opsStarted < MaxOps /\ CallAddStickerToDatabase(p)
StartRemoveUserPack(p) == opsStarted < MaxOps /\ CallRemoveUserPack(p)

NextTxn ==
    \E p \in Procs :
        \/ StartAddStickerPack(p)
        \/ StartAddStickerToDatabase(p)
        \/ StartRemoveUserPack(p)
        \/ Step(p)
        \/ Finish(p)

SpecTxn == Init /\ [][NextTxn]_vars

\* Each operation runs alone: it starts only when no other is in flight.
StartAddStickerPackAlone(p) ==
    Quiet /\ opsStarted < MaxAloneOps /\ CallAddStickerPack(p)
StartAddStickerToDatabaseAlone(p) ==
    Quiet /\ opsStarted < MaxAloneOps /\ CallAddStickerToDatabase(p)
StartRemoveUserPackAlone(p) ==
    Quiet /\ opsStarted < MaxAloneOps /\ CallRemoveUserPack(p)

NextAlone ==
    \E p \in Procs :
        \/ StartAddStickerPackAlone(p)
        \/ StartAddStickerToDatabaseAlone(p)
        \/ StartRemoveUserPackAlone(p)
        \/ Step(p)
        \/ Finish(p)

SpecAlone == Init /\ [][NextAlone]_vars


(***************************************************************************)
(* The conversation engine: the events of the chats are handled one at a   *)
(* time; each handler runs to its end, with any outcome of its external    *)
(* steps.  Any user may write in any chat (group chats).                   *)
(***************************************************************************)
Outcomes ==
    {"none", "convert", "api", "getStickerSet", "sendDocument",
     "asp_insUser", "asp_insPack", "asp_insUserPack", "asp_linkExisting",
     "asd_insSticker", "asd_touchPack"}
ImportOutcomes ==
    {"none", "getStickerSet",
     "asp_insUser", "asp_insPack", "asp_insUserPack", "asp_linkExisting"}

\* The texts users send, as a pack title and as a pack reference.
Texts == {<<" ", "A", "b", " ", "c", "!">>, <<"e", "x">>}

\* The draws of Math.floor(Math.random() * 1000).
SuffixDraws == {42}

PhotoDocuments == {Document("image/webp")}
Stickers == {Sticker(FALSE, ExternalSetName), Sticker(FALSE, UndefinedStr)}

\* Callback data that carries no argument.
PlainCallbacks ==
    {"select_icon", "select_sticker", "select_packs", "start_over", "convert_more",
     "create_pack", "add_external_pack", "finish_adding"}

\* The id generateRandomId draws: one no row carries yet, while there is one.
FreshDraw ==
    LET used == {p.id[2] : p \in db.sticker_packs} \cup {r.id[2] : r \in db.stickers}
    IN IF IdDraws \ used = {} THEN 1
       ELSE CHOOSE k \in IdDraws \ used : \A j \in IdDraws \ used : k <= j

\* The context a handler of chat c starts in: getSession has run.
Context(c) ==
    [s |-> getSession(sessions, c, now)[c], db |-> db, platform |-> platform,
     files |-> tempFiles, calls |-> {}, attempts |-> {}, imported |-> {},
     error |-> "none", replies |-> {}, converted |-> FALSE]

\* The handler of an event of chat c ended in context x.  Events are taken
\* while the temp directory holds fewer than MaxTempFiles files.
Handled(c, x) ==
    /\ Cardinality(tempFiles) < MaxTempFiles
    /\ sessions' = [getSession(sessions, c, now) EXCEPT ![c] = x.s]
    /\ db' = x.db
    /\ platform' = x.platform
    /\ tempFiles' = x.files
    /\ out' = [chat |-> c, calls |-> x.calls, attempts |-> x.attempts,
               imported |-> x.imported, error |-> x.error,
               replies |-> x.replies \cap FlowReplies]
    /\ UNCHANGED <<conn, procs, opsStarted, now, nextSweep, job>>

\* /start
OnStart(c) == Handled(c, handleStart(Context(c)))

\* /cancel
OnCancel(c) == Handled(c, handleCancel(Context(c)))

\* A button without argument, one of names, is pressed.
Pressed(c, names) ==
    \E u \in Users, n \in names :
        Handled(c, handleCallback(Context(c), u, Action(n, <<>>), "none", 1, now))

OnPlainCallback(c) == Pressed(c, PlainCallbacks)

\* A select_pack:<name> button is pressed, of a listed pack or a stale one.
OnSelectPack(c) ==
    \E u \in Users, n \in {p.name : p \in db.sticker_packs} \cup {ExternalSetName} :
        Handled(c, handleCallback(Context(c), u, Action("select_pack", n), "none", 1, now))

\* A remove_pack:<id> button is pressed.
OnRemovePack(c) ==
    \E u \in Users, p \in db.sticker_packs, o \in {"none", "rup_delUserPack", "rup_delPack"} :
        Handled(c, handleCallback(Context(c), u, Action("remove_pack", p.id), o, 1, now))

\* A toggle_favorite:<id> button is pressed.
OnToggleFavorite(c) ==
    \E u \in Users, p \in db.sticker_packs :
        Handled(c, handleCallback(Context(c), u, Action("toggle_favorite", p.id),
                                  "none", 1, now))

\* A text message arrives.
OnText(c) ==
    \E u \in Users, message \in Texts, r \in SuffixDraws, o \in ImportOutcomes :
        Handled(c, handleText(Context(c), u, message, r, o, FreshDraw, now))

\* A photo or a document arrives.
OnPhotoDocument(c) ==
    \E u \in Users, m \in PhotoDocuments, o \in Outcomes :
        Handled(c, handlePhotoDocument(Context(c), u, m, o, FreshDraw, now))

\* A sticker arrives.
OnSticker(c) ==
    \E u \in Users, m \in Stickers, o \in Outcomes :
        Handled(c, handleSticker(Context(c), u, m, o, FreshDraw, now))

Next ==
    \E c \in Chats :
        \/ OnStart(c)
        \/ OnCancel(c)
        \/ OnPlainCallback(c)
        \/ OnSelectPack(c)
        \/ OnRemovePack(c)
        \/ OnToggleFavorite(c)
        \/ OnText(c)
        \/ OnPhotoDocument(c)
        \/ OnSticker(c)

Spec == Init /\ [][Next]_vars


(***************************************************************************)
(* The session store under its timer: chats converting images and naming   *)
(* packs while the clock runs, and purgeSessions every PURGE_INTERVAL from *)
(* the load of the module.  The clock is observed at the load, one         *)
(* millisecond before the first firing of the timer, and at each firing:   *)
(* a session last used at PURGE_INTERVAL - 1 is 6 h and 1 ms old at the    *)
(* seventh sweep, one last used at PURGE_INTERVAL is 6 h old.              *)
(***************************************************************************)
SweepChats == 1..MaxSweepChats
MaxClock == MaxHours * PURGE_INTERVAL

NextInstant(t) ==
    IF t = 0 THEN PURGE_INTERVAL - 1
    ELSE IF t % PURGE_INTERVAL = 0 THEN t + PURGE_INTERVAL
    ELSE t + 1

\* Time passes, up to the next firing of the timer.
Tick ==
    /\ now < nextSweep
    /\ NextInstant(now) <= MaxClock
    /\ now' = NextInstant(now)
    /\ UNCHANGED <<db, conn, procs, opsStarted, sessions, platform, tempFiles, out, job,
                   nextSweep>>

\* The timer fires: purgeSessions runs, to its end or to its exception.
\* An exception leaves the session table and the files as the loop had them
\* when it was thrown; what the runtime does with an exception that leaves
\* a timer callback is not modelled, the timer is taken to fire again.
Purge ==
    /\ now = nextSweep
    /\ LET r == purgeSessions(sessions, tempFiles, now)
       IN /\ sessions' = r.sessions
          /\ tempFiles' = r.files
    /\ nextSweep' = nextSweep + PURGE_INTERVAL
    /\ UNCHANGED <<db, conn, procs, opsStarted, now, platform, out, job>>

\* A mode or pack-creation button is pressed.
OnModeCallback(c) ==
    Pressed(c, {"select_icon", "select_packs", "create_pack"})

\* The title of a new pack is typed.
OnPackTitle(c) ==
    /\ c \in DOMAIN sessions
    /\ sessions[c].packCreationStep = "awaiting_name"
    /\ \E u \in Users, message \in Texts, r \in SuffixDraws :
          Handled(c, handleText(Context(c), u, message, r, "none", 1, now))

\* An image document arrives for conversion.
OnConversionUpload(c) ==
    /\ c \in DOMAIN sessions
    /\ ~InPackUpload(sessions[c])
    /\ \E u \in Users, m \in {Document("image/png")} :
          Handled(c, handlePhotoDocument(Context(c), u, m, "none", 1, now))

NextSweep ==
    \/ Tick
    \/ Purge
    \/ \E c \in SweepChats :
          \/ OnModeCallback(c)
          \/ OnPackTitle(c)
          \/ OnConversionUpload(c)

SpecSweep == Init /\ [][NextSweep]_vars


(***************************************************************************)
(* Claims about the transactional repository.                              *)
(***************************************************************************)

\* C3: an addStickerPack that runs alone and faults at the user_packs insert,
\* after its sticker_packs insert, throws to its caller and leaves no
\* sticker_packs row and no user_packs row for that pack.
C3_FaultedCreationLeavesNoRows ==
    \A p \in Procs :
        (/\ procs[p].pc = "done"
         /\ procs[p].op = "addStickerPack"
         /\ procs[p].faulted = "asp_insUserPack")
        => /\ procs[p].failed
           /\ PackByName(db, procs[p].packName) = {}
           /\ PackById(db, procs[p].packId) = {}
           /\ \A r \in db.user_packs : r.pack_id # procs[p].packId

C3_Witness ==
    \E p \in Procs :
        /\ procs[p].pc = "done"
        /\ procs[p].op = "addStickerPack"
        /\ procs[p].faulted = "asp_insUserPack"
        /\ Key("sticker_packs", 0, procs[p].packId) \in procs[p].inserted

\* What an atomic operation leaves when it returns (all of its row writes)
\* or throws (none of them).
AllOrNothing(pr, d) ==
    IF pr.failed
    THEN /\ \A x \in pr.inserted : ~RowPresent(d, x)
         /\ \A x \in pr.deleted : RowPresent(d, x)
    ELSE /\ \A x \in pr.inserted : RowPresent(d, x)
         /\ \A x \in pr.deleted : ~RowPresent(d, x)

\* C4: when compound operations of different chats interleave on the shared
\* connection, each one ends with all of its writes applied or none of them.
C4_InterleavedOperationsAtomic ==
    [][\A p \in Procs :
          (procs[p].pc # "done" /\ procs'[p].pc = "done")
          => AllOrNothing(procs'[p], db')]_vars

\* C5: when removeUserPack has removed a user's membership in a pack they
\* do not own and no membership in the pack is left, the pack and its
\* stickers are gone; when memberships are left, the pack is still there and
\* nothing was cascaded.
C5_LastMembershipRemovalDeletesPack ==
    \A p \in Procs :
        (/\ procs[p].pc = "done"
         /\ procs[p].op = "removeUserPack"
         /\ ~procs[p].failed
         /\ Key("user_packs", procs[p].userId, procs[p].packId) \in procs[p].deleted)
        => IF \E r \in db.user_packs : r.pack_id = procs[p].packId
           THEN /\ PackById(db, procs[p].packId) # {}
                /\ Key("sticker_packs", 0, procs[p].packId) \notin procs[p].deleted
           ELSE (\A q \in PackById(db, procs[p].packId) : q.owner_id # procs[p].userId)
                => /\ PackById(db, procs[p].packId) = {}
                   /\ \A r \in db.stickers : r.pack_id # procs[p].packId

(***************************************************************************)
(* Claims about the conversation engine.                                   *)
(***************************************************************************)

\* C1: in every state reached by handling a chat's events one at a time, a
\* session whose packCreationStep is adding_stickers has a currentPackName
\* that is a name (neither null nor undefined).
C1_AddingStickersHasPackName ==
    \A c \in DOMAIN sessions :
        sessions[c].packCreationStep = "adding_stickers"
        => sessions[c].currentPackName \notin {NullStr, UndefinedStr}

C1_Witness ==
    \E c \in DOMAIN sessions :
        /\ sessions[c].packCreationStep = "adding_stickers"
        /\ sessions[c].currentPackName = generateStickerSetName(BotUsername, <<"A", "b", " ", "c", "!">>, 42)

\* The user made the set through the bot: the platform records it for them.
CreatedThroughBot(pl, userId, name) ==
    name \in DOMAIN pl /\ pl[name].user_id = userId

\* C2: after a user imports by reference a pack they did not create through
\* the bot, canUserEditPack is false for that user and pack and no session
\* has entered adding_stickers; the first import of a pack the repository
\* has never seen included.
C2_ImportIsReadOnly ==
    [][\A i \in out'.imported :
          ~CreatedThroughBot(platform, i.userId, i.name)
          => /\ ~canUserEditPack(db', i.userId, i.name)
             /\ \A c \in DOMAIN sessions' :
                    sessions'[c].packCreationStep = "adding_stickers"
                    => /\ c \in DOMAIN sessions
                       /\ sessions[c].packCreationStep = "adding_stickers"]_vars

\* C6: addStickerToSet calls the platform's addStickerToSet for a user and a
\* pack only if the repository gives that user a can_edit = 1 membership or
\* records them as the owner; in every other case, an unknown pack included,
\* it fails with the permission error, calls nothing and writes no row.
C6_AddOnlyWithEditRight ==
    [][/\ \A a \in out'.calls :
             a \in out'.attempts /\ canUserEditPack(db, a.userId, a.name)
       /\ \A a \in out'.attempts :
             ~canUserEditPack(db, a.userId, a.name)
             => /\ out'.error = "permission"
                /\ out'.calls = {}
                /\ db' = db
                /\ platform' = platform]_vars

C6_Witness ==
    /\ out.attempts # {}
    /\ out.error = "permission"
    /\ out.calls = {}

\* The position after the highest recorded one, 0 for a pack without rows.
NextPosition(d, packId) ==
    LET taken == {r.position : r \in {q \in d.stickers : q.pack_id = packId}}
    IN IF taken = {} THEN 0
       ELSE (CHOOSE a \in taken : \A b \in taken : b <= a) + 1

\* C7: every sticker row the engine adds has the position one above the
\* highest position recorded for its pack before (0 for a pack without
\* rows), and the pack's last_modified is then the current time.
C7_PositionIsPriorMaxPlusOne ==
    [][\A r \in db'.stickers \ db.stickers :
          /\ r.position = NextPosition(db, r.pack_id)
          /\ \A q \in PackById(db', r.pack_id) : q.last_modified = now]_vars

\* C8: the temp directory is empty at the start, and every handler has
\* deleted the files it staged by the time it ends, whatever the outcome of
\* conversion, publishing and sending: the directory is empty after every
\* handled event.
C8_StagedFilesDeleted == tempFiles = {}

(***************************************************************************)
(* Claims about the session store and its sweep.                           *)
(***************************************************************************)

\* C9: a sweep removes every session that was inactive for more than
\* SESSION_MAX_AGE when it ran, whatever entries its images list holds, and
\* leaves none of the files those entries name.
C9_ExpiredSessionsPurged ==
    [][nextSweep' # nextSweep
       => \A c \in DOMAIN sessions :
             now - sessions[c].timestamp > SESSION_MAX_AGE
             => /\ c \notin DOMAIN sessions'
                /\ \A i \in DOMAIN sessions[c].images :
                      "filename" \in DOMAIN sessions[c].images[i]
                      => sessions[c].images[i].filename \notin tempFiles']_vars

InboundMedia ==
    {Photo, Document("image/webp"), Document("image/png"),
     Sticker(FALSE, ExternalSetName), Sticker(FALSE, UndefinedStr),
     Sticker(TRUE, ExternalSetName)}

\* The handler bot.on routes a message with media m to.
handleMedia(x, userId, m, o, k, t) ==
    IF m.kind = "sticker" THEN handleSticker(x, userId, m, o, k, t)
    ELSE handlePhotoDocument(x, userId, m, o, k, t)

\* C11: while the session of a chat has no mode, any media the chat sends,
\* photo, document or sticker, is answered by the prompt to select a mode:
\* no conversion is run, no document is sent back, and the mode and the
\* step of the session stay as they were.
C11_IdleRejectsMedia ==
    \A c \in Chats, u \in Users, m \in InboundMedia, o \in Outcomes :
        LET before == Context(c)
            after == handleMedia(before, u, m, o, FreshDraw, now)
        IN before.s.mode = "null"
           => /\ ~after.converted
              /\ "document" \notin after.replies
              /\ "select_mode" \in after.replies
              /\ after.s.mode = before.s.mode
              /\ after.s.packCreationStep = before.s.packCreationStep

\* C12: when a chat in waiting_first_sticker sends media and the platform
\* creates the set, the session is in adding_stickers afterwards and no
\* error is reported, whatever becomes of the repository writes that follow
\* the creation on the platform.
C12_CreatedSetEntersAddingStickers ==
    \A c \in Chats, u \in Users, m \in InboundMedia, o \in Outcomes :
        LET before == Context(c)
            after == handleMedia(before, u, m, o, FreshDraw, now)
        IN (/\ before.s.mode = "packs"
            /\ before.s.packCreationStep = "waiting_first_sticker"
            /\ before.s.currentPackName \in DOMAIN after.platform \ DOMAIN platform)
           => /\ after.s.packCreationStep = "adding_stickers"
              /\ "error" \notin after.replies

(***************************************************************************)
(* Library functions called on their own.  The engine is at rest; job      *)
(* holds the arguments of the call and what it has computed so far.        *)
(***************************************************************************)
AtRest ==
    /\ db = EmptyDb
    /\ conn = NoConn
    /\ procs = [p \in Procs |-> IdleProc]
    /\ opsStarted = 0
    /\ now = 0
    /\ sessions = <<>>
    /\ platform = [n \in {ExternalSetName} |-> ExternalSet]
    /\ tempFiles = {}
    /\ out = NoOut
    /\ nextSweep = PURGE_INTERVAL

StaysAtRest ==
    UNCHANGED <<db, conn, procs, opsStarted, now, sessions, platform, tempFiles, out,
                nextSweep>>

(***************************************************************************)
(* processImages(ctx, images, options): the attachments of a batch are     *)
(* processed by a for-of loop, one await after the other.  What becomes    *)
(* of the download, the conversion and the send of an attachment is drawn  *)
(* when the loop reaches it; validateImage rejects a file over SIZE_LIMIT. *)
(***************************************************************************)
MaxBatch == 3
SIZE_LIMIT == 52428800

\* The file sizes of the attachments: under a tenth of the limit, a tenth
\* of the limit, over the limit.
FileSizes == {SIZE_LIMIT \div 10 - 1, SIZE_LIMIT \div 10, SIZE_LIMIT + 1}

\* The i-th attachment of a message: its file_id, or none (the empty string).
FileIdAt(i) == <<"f">> \o decimalString(i)
Attachments(i) == [fileId : {FileIdAt(i), <<>>}, fileSize : FileSizes]

Batches ==
    UNION {{b \in [1..n -> UNION {Attachments(i) : i \in 1..n}] :
                \A i \in 1..n : b[i] \in Attachments(i)} : n \in 0..MaxBatch}

\* What can become of one attachment in processImage and replyWithDocument.
Fates == {"ok", "download", "convert", "send"}

NoResults == [success |-> <<>>, failures |-> <<>>, skipped |-> <<>>]

\* processImage: download (validateImage first), metadata, sharp.
processImage(image, fate) ==
    IF image.fileSize > SIZE_LIMIT THEN [thrown |-> TRUE, reason |-> "size"]
    ELSE IF fate \in {"download", "convert"} THEN [thrown |-> TRUE, reason |-> fate]
    ELSE [thrown |-> FALSE, reason |-> "none"]

\* Mutant of processImagesStep: a failure ends the batch (the results stay
\* as they are for every later attachment).
processImagesStepAborting(results, image, fate, userId, t) ==
    IF results.failures # <<>> THEN results
    ELSE IF image.fileId = <<>>
    THEN [results EXCEPT !.failures =
              Append(@, [fileId |-> UndefinedStr, reason |-> "Missing file_id"])]
    ELSE LET r == processImage(image, fate)
         IN IF r.thrown \/ fate = "send"
            THEN [results EXCEPT !.failures =
                      Append(@, [fileId |-> image.fileId,
                                 reason |-> IF r.thrown THEN r.reason ELSE fate])]
            ELSE [results EXCEPT !.success =
                      Append(@, [fileId |-> image.fileId,
                                 filename |-> generateUniqueFilename("converted", "webp",
                                                                     userId, t)])]

\* One turn of the loop of processImages: the body for one attachment.
processImagesStep(results, image, fate, userId, t) ==
    IF image.fileId = <<>>
    THEN [results EXCEPT !.failures =
              Append(@, [fileId |-> UndefinedStr, reason |-> "Missing file_id"])]
    ELSE LET r == processImage(image, fate)
         IN IF r.thrown \/ fate = "send"
            THEN [results EXCEPT !.failures =
                      Append(@, [fileId |-> image.fileId,
                                 reason |-> IF r.thrown THEN r.reason ELSE fate])]
            ELSE [results EXCEPT !.success =
                      Append(@, [fileId |-> image.fileId,
                                 filename |-> generateUniqueFilename("converted", "webp",
                                                                     userId, t)])]

\* processImages is called with a batch.
InitBatch ==
    /\ AtRest
    /\ \E b \in Batches, u \in Users :
          job = [call |-> "processImages", userId |-> u, images |-> b, fates |-> <<>>,
                 results |-> NoResults]

\* The loop takes the next attachment.
ProcessNextImage ==
    /\ job.call = "processImages"
    /\ Len(job.fates) < Len(job.images)
    /\ \E fate \in Fates :
          LET image == job.images[Len(job.fates) + 1]
          IN job' = [job EXCEPT
                        !.fates = Append(@, fate),
                        !.results = processImagesStep(@, image, fate, job.userId, now)]
    /\ StaysAtRest

NextBatch == ProcessNextImage

SpecBatch == InitBatch /\ [][NextBatch]_vars

\* Attachment i of the batch failed: it has no file_id, its file is over the
\* limit, or its download, conversion or send failed.
FailedAt(images, fates, i) ==
    \/ images[i].fileId = <<>>
    \/ images[i].fileSize > SIZE_LIMIT
    \/ fates[i] # "ok"

\* The file_ids of the attachments 1..n that did not fail, in arrival order.
RECURSIVE NonFailing(_, _, _)
NonFailing(images, fates, n) ==
    IF n = 0 THEN <<>>
    ELSE IF FailedAt(images, fates, n) THEN NonFailing(images, fates, n - 1)
    ELSE Append(NonFailing(images, fates, n - 1), images[n].fileId)

\* C13: at every turn of the loop of processImages, the success list holds
\* exactly the attachments taken so far that did not fail, in their order
\* of arrival, and every attachment taken so far is in the success list or
\* in the failure list: a failing attachment does not end the batch.
C13_FailureDoesNotAbortBatch ==
    job.call = "processImages"
    => LET n == Len(job.fates)
           success == job.results.success
       IN /\ [i \in 1..Len(success) |-> success[i].fileId]
                = NonFailing(job.images, job.fates, n)
          /\ Len(success) + Len(job.results.failures) = n

C13_Witness ==
    /\ job.call = "processImages"
    /\ Len(job.images) = 3
    /\ Len(job.fates) = 3
    /\ job.fates[2] = "convert"
    /\ Len(job.results.success) = 2
    /\ Len(job.results.failures) = 1

\* C14: at every turn of the loop of processImages, the attachments taken so
\* far whose size is under a tenth of SIZE_LIMIT are counted in the skipped
\* list, and none of them is in the success list or in the failure list.
C14_ThumbnailsSkipped ==
    job.call = "processImages"
    => LET n == Len(job.fates)
           thumbnails == {i \in 1..n : job.images[i].fileSize * 10 < SIZE_LIMIT}
           r == job.results
       IN /\ Len(r.skipped) = Cardinality(thumbnails)
          /\ Len(r.success) + Len(r.failures) = n - Cardinality(thumbnails)
          /\ \A i \in thumbnails, j \in DOMAIN r.success :
                r.success[j].fileId # job.images[i].fileId

\* C15: after a /cancel the session of the chat has no step and no pack
\* name, and the mode it had before; a session in packs mode is then in the
\* pack menu.
C15_CancelKeepsMode ==
    []["cancelled" \in out'.replies
       => LET c == out'.chat
              before == getSession(sessions, c, now)[c]
          IN /\ sessions'[c].packCreationStep = "null"
             /\ sessions'[c].currentPackName = NullStr
             /\ sessions'[c].mode = before.mode]_vars

C15_Witness ==
    /\ "cancelled" \in out.replies
    /\ sessions[out.chat].mode = "packs"
    /\ sessions[out.chat].packTitle # UndefinedStr
    /\ sessions[out.chat].packCreationStep = "null"

\* C16: after a start-over, by /start or by the start_over button, the
\* session of the chat is reset as a whole: no mode, no step, no pack name,
\* no pack title, and no buffered image.
C16_StartOverResetsSession ==
    []["menu" \in out'.replies
       => LET s == sessions'[out'.chat]
          IN /\ s.mode = "null"
             /\ s.packCreationStep = "null"
             /\ s.currentPackName = NullStr
             /\ s.packTitle \in {NullStr, UndefinedStr}
             /\ s.images = <<>>]_vars

\* The texts a chat can type as the title of a pack: too short, too short
\* once trimmed, long enough once trimmed, and with characters the slug drops.
TitleTexts ==
    {<<>>, <<"a", "b">>, <<" ", "a", "b", " ">>, <<" ", " ", " ", " ">>,
     <<"a", "b", "c">>, <<" ", "A", "b", " ", "c", "!">>, <<"!", "?", "#">>}

\* C17: for a session in packs mode at awaiting_name, a text shorter than 3
\* characters once trimmed leaves the session as it is; a text of at least
\* 3 characters once trimmed puts the session in waiting_first_sticker, with
\* the trimmed text as packTitle and the slug generated from it as
\* currentPackName.
C17_TitleAcceptedFromThreeCharacters ==
    \A c \in Chats, u \in Users, message \in TitleTexts, r \in SuffixDraws :
        LET before == Context(c)
            after == handleText(before, u, message, r, "none", FreshDraw, now)
            title == trim(message)
        IN (before.s.mode = "packs" /\ before.s.packCreationStep = "awaiting_name")
           => IF Len(title) < 3
              THEN after.s = before.s
              ELSE /\ after.s.packCreationStep = "waiting_first_sticker"
                   /\ after.s.packTitle = title
                   /\ Head(title) # " " /\ title[Len(title)] # " "
                   /\ after.s.currentPackName =
                          generateStickerSetName(BotUsername, title, r)
                   /\ after.s.mode = "packs"

C17_Witness ==
    /\ "name_ready" \in out.replies
    /\ sessions[out.chat].mode = "packs"
    /\ sessions[out.chat].packCreationStep = "waiting_first_sticker"
    /\ sessions[out.chat].packTitle = <<"A", "b", " ", "c", "!">>
    /\ sessions[out.chat].currentPackName
           = <<"a", "b", "c", "_", "4", "2", "_", "b", "y", "_", "b", "o", "t">>

\* C18: when the finish_adding button is pressed in a session in packs mode
\* at adding_stickers, the session is in the pack menu afterwards: no step,
\* no pack name, and still packs mode.
C18_FinishReturnsToPackMenu ==
    []["updated" \in out'.replies
       => LET c == out'.chat
              before == getSession(sessions, c, now)[c]
          IN (before.mode = "packs" /\ before.packCreationStep = "adding_stickers")
             => /\ sessions'[c].packCreationStep = "null"
                /\ sessions'[c].currentPackName = NullStr
                /\ sessions'[c].mode = "packs"]_vars

C18_Witness ==
    /\ "updated" \in out.replies
    /\ sessions[out.chat].mode = "packs"
    /\ sessions[out.chat].packCreationStep = "null"
    /\ sessions[out.chat].currentPackName = NullStr
    /\ db.stickers # {}

(***************************************************************************)
(* extractStickerSetName(input) called on the texts of users: a reference  *)
(* to a pack is a head (nothing, or an addstickers URL up to its last      *)
(* slash, in any case, with or without scheme, after other words or not)   *)
(* followed by up to MaxTail characters.                                   *)
(***************************************************************************)
MaxTail == 3

TailChars == {"a", "B", "1", "_", " ", "?"}

RefHeads ==
    {<<>>,
     <<"t", ".", "m", "e", "/", "a", "d", "d", "s", "t", "i", "c", "k", "e", "r", "s", "/">>,
     <<"h", "t", "t", "p", "s", ":", "/", "/", "T", ".", "m", "e", "/",
       "a", "d", "d", "s", "t", "i", "c", "k", "e", "r", "s", "/">>,
     <<"s", "e", "e", " ", "t", "e", "l", "e", "g", "r", "a", "m", ".", "d", "o", "g", "/",
       "a", "d", "d", "s", "t", "i", "c", "k", "e", "r", "s", "/">>}

PackReferences ==
    {h \o tail : h \in RefHeads,
                 tail \in UNION {[1..n -> TailChars] : n \in 0..MaxTail}}

\* extractStickerSetName is called with a text.
InitExtract ==
    /\ AtRest
    /\ \E input \in PackReferences :
          job = [call |-> "extractStickerSetName", input |-> input,
                 returned |-> FALSE, result |-> <<>>]

\* extractStickerSetName returns.
ExtractReturns ==
    /\ job.call = "extractStickerSetName"
    /\ ~job.returned
    /\ job' = [job EXCEPT !.returned = TRUE,
                          !.result = extractStickerSetName(job.input)]
    /\ StaysAtRest

NextExtract == ExtractReturns

SpecExtract == InitExtract /\ [][NextExtract]_vars

\* C19: whatever extractStickerSetName returns for a text is null or a name
\* that matches ^[a-z0-9_]{1,64}$, for a bare slug as for an addstickers
\* URL; and a text without a character of a slug yields null.
C19_ExtractedNameIsValid ==
    (job.call = "extractStickerSetName" /\ job.returned)
    => /\ job.result = NullStr \/ isValidStickerSetName(job.result)
       /\ (\A i \in DOMAIN job.input : ~IsSlugChar(toLowerCaseChar(job.input[i])))
          => job.result = NullStr

(***************************************************************************)
(* processWebmFile(buffer, userId): the validation with ffprobe and the    *)
(* transcoding with ffmpeg of a video sticker, statement by statement.     *)
(* The two programs run through execSync, which throws when the program    *)
(* exits with an error; an ffmpeg that fails has written its output file   *)
(* in part, or not at all.                                                 *)
(***************************************************************************)
WEBM_SIZE_LIMIT == 262144

\* What ffprobe finds in a buffer, and the length of the buffer.
Videos ==
    [probe : {"fails", "no stream", "stream"},
     codec : {"vp9", "h264"},
     length : {WEBM_SIZE_LIMIT, WEBM_SIZE_LIMIT + 1},
     duration : {3, 4},
     frameRate : {30, 60},
     width : {512, 513}]

\* The checks of validateWebmFile on the stream that ffprobe reports.
webmChecks(video) ==
    /\ video.codec = "vp9"
    /\ video.length <= WEBM_SIZE_LIMIT
    /\ video.duration <= 3
    /\ video.frameRate <= 30
    /\ video.width <= 512

ValidatePath(t) == generateUniqueFilename("validate", "webm", 0, t)
InputPath(userId, t) == generateUniqueFilename("input", "webm", userId, t)
OutputPath(userId, t) == generateUniqueFilename("video", "webm", userId, t)

\* processWebmFile is called with a buffer.
InitWebm ==
    /\ AtRest
    /\ \E video \in Videos, u \in Users :
          job = [call |-> "processWebmFile", pc |-> "validate", userId |-> u,
                 video |-> video, thrown |-> FALSE]

WebmStep(pc, files) ==
    /\ job.call = "processWebmFile"
    /\ job.pc = pc
    /\ tempFiles' = files
    /\ UNCHANGED <<db, conn, procs, opsStarted, now, sessions, platform, out, nextSweep>>

\* validateWebmFile writes the buffer to a temp file for ffprobe.
WriteValidationCopy ==
    /\ WebmStep("validate", createTempFile([files |-> tempFiles], ValidatePath(now)).files)
    /\ job' = [job EXCEPT !.pc = "probe"]

\* execSync(ffprobe), then safeDeleteFile of the copy and the checks; when
\* ffprobe fails the catch returns { valid: false } and processWebmFile
\* throws, as it does when a check fails.
Probe ==
    /\ WebmStep("probe",
                IF job.video.probe = "fails" THEN tempFiles
                ELSE safeDeleteFile([files |-> tempFiles], ValidatePath(now)).files)
    /\ job' = IF job.video.probe = "stream" /\ webmChecks(job.video)
              THEN [job EXCEPT !.pc = "input"]
              ELSE [job EXCEPT !.pc = "done", !.thrown = TRUE]

\* processWebmFile writes the buffer to the input file of ffmpeg.
WriteTranscodeInput ==
    /\ WebmStep("input",
                createTempFile([files |-> tempFiles], InputPath(job.userId, now)).files)
    /\ job' = [job EXCEPT !.pc = "transcode"]

\* execSync(ffmpeg) succeeds: the output is written, the input is deleted.
Transcode ==
    /\ WebmStep("transcode",
                safeDeleteFile(
                    createTempFile([files |-> tempFiles], OutputPath(job.userId, now)),
                    InputPath(job.userId, now)).files)
    /\ job' = [job EXCEPT !.pc = "done"]

\* execSync(ffmpeg) throws, with or without a part of the output written.
TranscodeFails ==
    /\ \E partial \in BOOLEAN :
          WebmStep("transcode",
                   IF partial
                   THEN createTempFile([files |-> tempFiles],
                                       OutputPath(job.userId, now)).files
                   ELSE tempFiles)
    /\ job' = [job EXCEPT !.pc = "done", !.thrown = TRUE]

NextWebm ==
    \/ WriteValidationCopy
    \/ Probe
    \/ WriteTranscodeInput
    \/ Transcode
    \/ TranscodeFails

SpecWebm == InitWebm /\ [][NextWebm]_vars

\* C20: when processWebmFile has ended, by its return or by its exception,
\* the temp directory holds the output file alone if it returned, and none
\* of the validation copy, the transcode input and the transcode output if
\* it threw.
C20_NoLeftoverVideoFile ==
    (job.call = "processWebmFile" /\ job.pc = "done")
    => tempFiles = IF job.thrown THEN {} ELSE {OutputPath(job.userId, now)}

(***************************************************************************)
(* The conversion of a still image.  An image is its pixel dimensions and  *)
(* the number of fully transparent rows that extend() appended below it;   *)
(* height counts every row, the appended ones included.  The sharp calls   *)
(* are modelled by the dimensions they produce.                            *)
(***************************************************************************)
MaxSide == 1024

Sides == {1, 50, 99, 100, 101, 256, 461, 462, 463, 511, 512, 513, MaxSide}

Image(width, height) == [width |-> width, height |-> height, strip |-> 0]

\* What a conversion that threw leaves: no image.
NoImage == Image(0, 0)

SourceImages == {Image(w, h) : w \in Sides, h \in Sides}

\* Math.round(n / d) for n >= 0, d > 0: a half rounds up.
round(n, d) == (2 * n + d) \div (2 * d)

Smaller(a, b) == IF a < b THEN a ELSE b

\* sharp(buffer).resize(width, height, {fit, withoutEnlargement}): the
\* images the call can produce.  A dimension that is not a positive integer
\* is rejected.  fill and cover give the exact box (cover crops the
\* overflow); under withoutEnlargement an image smaller than the box on an
\* axis is not scaled up: it is left as it is or cropped to the box,
\* depending on the version of the library.  inside keeps the aspect ratio
\* within the box.
resize(image, width, height, fit, withoutEnlargement) ==
    IF width < 1 \/ height < 1 \/ image = NoImage THEN {NoImage}
    ELSE IF fit = "inside"
    THEN IF withoutEnlargement /\ image.width <= width /\ image.height <= height
         THEN {Image(image.width, image.height)}
         ELSE IF image.width * height >= image.height * width
         THEN {Image(width, LET h == round(image.height * width, image.width)
                            IN IF h < 1 THEN 1 ELSE h)}
         ELSE {Image(LET w == round(image.width * height, image.height)
                     IN IF w < 1 THEN 1 ELSE w, height)}
    ELSE IF withoutEnlargement /\ (image.width < width \/ image.height < height)
    THEN {Image(image.width, image.height),
          Image(Smaller(image.width, width), Smaller(image.height, height))}
    ELSE {Image(width, height)}

\* .extend({top: 0, bottom, left: 0, right: 0, background: alpha 0})
extend(image, bottom) ==
    IF image = NoImage THEN NoImage
    ELSE [image EXCEPT !.height = @ + bottom, !.strip = bottom]

\* targetBox with the 50 rows of padding left out of the height.
targetBoxUnpadded(metadata) ==
    LET first == IF metadata.width >= metadata.height
                 THEN [width |-> 512,
                       height |-> round(512 * metadata.height, metadata.width)]
                 ELSE [width |-> round(512 * metadata.width, metadata.height),
                       height |-> 512]
    IN IF first.height > 512
       THEN [width |-> round(512 * metadata.width, metadata.height), height |-> 512]
       ELSE first

\* The box processImage (the version that takes no options) computes from
\* the metadata of the source.
targetBox(metadata) ==
    LET first == IF metadata.width >= metadata.height
                 THEN [width |-> 512,
                       height |-> round(512 * metadata.height, metadata.width)]
                 ELSE [width |-> round(462 * metadata.width, metadata.height),
                       height |-> 462]
    IN IF first.height > 462
       THEN [width |-> round(462 * metadata.width, metadata.height), height |-> 462]
       ELSE first

\* processImage(ctx, fileId, userId): resize to the box by fit fill, then
\* the 50 rows.
processImageByAspect(image) ==
    LET box == targetBox(image)
    IN {extend(r, 50) : r \in resize(image, box.width, box.height, "fill", FALSE)}

\* The options handlePhotoDocument and handleStickerForPack pass.
IconOptions == [width |-> 100, height |-> 100, addBuffer |-> FALSE, forceResize |-> TRUE]

StickerOptions == [width |-> 512, height |-> 462, addBuffer |-> TRUE, forceResize |-> FALSE]

PackStickerOptions == [width |-> 512, height |-> 462, addBuffer |-> TRUE, forceResize |-> TRUE]

ConversionOptions == {IconOptions, StickerOptions, PackStickerOptions}

\* processImage(ctx, fileId, options), the version of the module that
\* handlePhotoDocument imports: cover, withoutEnlargement false.
processImageWithOptions(image, options) ==
    LET resized == IF options.width > 0 /\ options.height > 0
                   THEN resize(image, options.width, options.height, "cover", FALSE)
                   ELSE {image}
    IN {IF options.addBuffer THEN extend(r, 50) ELSE r : r \in resized}

\* processImage(ctx, fileId, options), the version before it:
\* withoutEnlargement is options.forceResize ?? false.
processImageForceFlag(image, options) ==
    LET resized == IF options.width > 0 /\ options.height > 0
                   THEN resize(image, options.width, options.height, "cover",
                               options.forceResize)
                   ELSE {image}
    IN {IF options.addBuffer THEN extend(r, 50) ELSE r : r \in resized}

\* processStickerMessage(ctx): inside 512x512 without enlargement, then the
\* 50 rows.
processStickerMessage(image) ==
    {extend(r, 50) : r \in resize(image, 512, 512, "inside", TRUE)}

\* The icon branch of handlePhotoDocument (a WebP document) and of
\* handleSticker: resize(100, 100, cover, withoutEnlargement false).
resizeToIcon(image) == resize(image, 100, 100, "cover", FALSE)

ImageCalls ==
    {"processImageByAspect", "processImageWithOptions", "processImageForceFlag",
     "processStickerMessage", "iconDocument", "iconSticker"}

NoOptions == [width |-> 0, height |-> 0, addBuffer |-> FALSE, forceResize |-> FALSE]

\* The images a call can return for a source.
converted(call, image, options) ==
    CASE call = "processImageByAspect" -> processImageByAspect(image)
      [] call = "processImageWithOptions" -> processImageWithOptions(image, options)
      [] call = "processImageForceFlag" -> processImageForceFlag(image, options)
      [] call = "processStickerMessage" -> processStickerMessage(image)
      [] OTHER -> resizeToIcon(image)

\* A conversion is called with a decoded source image.
InitImage ==
    /\ AtRest
    /\ \E call \in ImageCalls, source \in SourceImages :
       \E options \in IF call \in {"processImageWithOptions", "processImageForceFlag"}
                      THEN ConversionOptions ELSE {NoOptions} :
          job = [call |-> call, source |-> source, options |-> options,
                 returned |-> FALSE, result |-> NoImage]

\* The conversion returns its image, or throws.
ImageReturns ==
    /\ job.call \in ImageCalls
    /\ ~job.returned
    /\ \E r \in converted(job.call, job.source, job.options) :
          job' = [job EXCEPT !.returned = TRUE, !.result = r]
    /\ StaysAtRest

NextImage == ImageReturns

SpecImage == InitImage /\ [][NextImage]_vars

\* A conversion under the Sticker profile has returned an image.
StickerProfileDone ==
    /\ job.call \in ImageCalls
    /\ job.returned
    /\ job.result # NoImage
    /\ \/ job.call = "processImageByAspect"
       \/ /\ job.call = "processImageWithOptions"
          /\ job.options \in {StickerOptions, PackStickerOptions}

\* C21: for a source image with width >= height the Sticker profile output
\* is 512 wide and at most 462 high before the padding, and exactly 50
\* transparent rows are appended below it.
C21_WideImageIs512Wide ==
    (StickerProfileDone /\ job.source.width >= job.source.height)
    => /\ job.result.width = 512
       /\ job.result.height - job.result.strip <= 462
       /\ job.result.strip = 50

C23_ProcessedStickerFits512 ==
    (/\ job.call = "processStickerMessage"
     /\ job.returned
     /\ job.result # NoImage
     /\ job.source.width <= 512
     /\ job.source.height <= 512)
    => /\ job.result.height <= 512
       /\ job.result.width <= 512

\* A conversion that serves icon mode has returned an image: the batch of
\* photos and documents through processImage with the icon options, the
\* WebP document and the sticker through their own resize.
IconProfileDone ==
    /\ job.call \in ImageCalls
    /\ job.returned
    /\ job.result # NoImage
    /\ \/ job.call \in {"iconDocument", "iconSticker"}
       \/ /\ job.call \in {"processImageWithOptions", "processImageForceFlag"}
          /\ job.options = IconOptions

\* C24: the Icon profile produces exactly 100x100, whatever the size of the
\* source, a source smaller than 100x100 included, on every path that
\* serves icon mode.
C24_IconIsExactly100x100 ==
    IconProfileDone
    => /\ job.result.width = 100
       /\ job.result.height = 100
       /\ job.result.strip = 0

(***************************************************************************)
(* The validation of animated stickers.  A buffer is its length and its    *)
(* first bytes; a video is what ffprobe reports of its first video stream, *)
(* the duration in milliseconds and the frame rate as the fraction of      *)
(* r_frame_rate.                                                           *)
(***************************************************************************)
TGS_SIZE_LIMIT == 65536

TgsLengths == {0, 1, 2, 3, TGS_SIZE_LIMIT - 1, TGS_SIZE_LIMIT, TGS_SIZE_LIMIT + 1}

HeadBytes == {0, 31, 139}

TgsBuffers ==
    UNION {[length : {n}, head : [1..Smaller(n, 2) -> HeadBytes]] : n \in TgsLengths}

\* buffer[i]: the byte, or undefined (here -1) past the end of the buffer.
byteAt(buffer, i) == IF i < buffer.length THEN buffer.head[i + 1] ELSE -1

\* validateTgsFile with the size limit exclusive.
validateTgsFileExclusive(buffer) ==
    IF buffer.length >= TGS_SIZE_LIMIT THEN FALSE
    ELSE IF byteAt(buffer, 0) # 31 \/ byteAt(buffer, 1) # 139 THEN FALSE
    ELSE TRUE

validateTgsFile(buffer) ==
    IF buffer.length > TGS_SIZE_LIMIT THEN FALSE
    ELSE IF byteAt(buffer, 0) # 31 \/ byteAt(buffer, 1) # 139 THEN FALSE
    ELSE TRUE

ProbedVideos ==
    [probe : {"fails", "no stream", "stream"},
     codec : {"vp9", "vp8", "h264"},
     length : {WEBM_SIZE_LIMIT, WEBM_SIZE_LIMIT + 1},
     duration : {2999, 3000, 3001},
     frameRate : {[num |-> 30, den |-> 1], [num |-> 31, den |-> 1],
                  [num |-> 30000, den |-> 1001]},
     width : {512, 513},
     height : {512, 513}]

Valid == [valid |-> TRUE, reason |-> "none"]
Invalid(reason) == [valid |-> FALSE, reason |-> reason]

\* validateWebmFile with the height left out of the dimension check.
validateWebmFileWidthOnly(video) ==
    IF video.probe = "fails" THEN Invalid("File analysis error")
    ELSE IF video.probe = "no stream" THEN Invalid("No video stream found")
    ELSE IF video.codec # "vp9" THEN Invalid("Video codec must be VP9")
    ELSE IF ~(video.length <= WEBM_SIZE_LIMIT) THEN Invalid("File too large")
    ELSE IF ~(video.duration <= 3000) THEN Invalid("Duration too long")
    ELSE IF ~(video.frameRate.num <= 30 * video.frameRate.den)
    THEN Invalid("Frame rate too high")
    ELSE IF ~(video.width <= 512) THEN Invalid("Dimensions too large")
    ELSE Valid

\* validateWebmFile(buffer): the first check that fails gives the reason.
validateWebmFile(video) ==
    IF video.probe = "fails" THEN Invalid("File analysis error")
    ELSE IF video.probe = "no stream" THEN Invalid("No video stream found")
    ELSE IF video.codec # "vp9" THEN Invalid("Video codec must be VP9")
    ELSE IF ~(video.length <= WEBM_SIZE_LIMIT) THEN Invalid("File too large")
    ELSE IF ~(video.duration <= 3000) THEN Invalid("Duration too long")
    ELSE IF ~(video.frameRate.num <= 30 * video.frameRate.den)
    THEN Invalid("Frame rate too high")
    ELSE IF ~(video.width <= 512 /\ video.height <= 512)
    THEN Invalid("Dimensions too large")
    ELSE Valid

\* A validator is called with a buffer.
InitValidate ==
    /\ AtRest
    /\ \/ \E buffer \in TgsBuffers :
             job = [call |-> "validateTgsFile", input |-> buffer,
                    returned |-> FALSE, result |-> Invalid("none")]
       \/ \E video \in ProbedVideos :
             job = [call |-> "validateWebmFile", input |-> video,
                    returned |-> FALSE, result |-> Invalid("none")]

\* validateTgsFile returns true or false.
TgsValidated ==
    /\ job.call = "validateTgsFile"
    /\ ~job.returned
    /\ job' = [job EXCEPT !.returned = TRUE,
                          !.result = IF validateTgsFile(job.input) THEN Valid
                                     ELSE Invalid("none")]
    /\ StaysAtRest

\* validateWebmFile returns { valid, reason }.
WebmValidated ==
    /\ job.call = "validateWebmFile"
    /\ ~job.returned
    /\ job' = [job EXCEPT !.returned = TRUE, !.result = validateWebmFile(job.input)]
    /\ StaysAtRest

NextValidate == TgsValidated \/ WebmValidated

SpecValidate == InitValidate /\ [][NextValidate]_vars

\* The buffer begins with the gzip magic bytes 0x1F 0x8B.
BeginsWithGzipMagic(buffer) ==
    /\ buffer.length >= 2
    /\ buffer.head[1] = 31
    /\ buffer.head[2] = 139

\* C25: validateTgsFile rejects a buffer that does not begin with the gzip
\* magic bytes, an empty or one-byte buffer included, and a buffer over
\* 64 KB; it accepts a buffer of exactly 64 KB that begins with them.
C25_TgsNeedsMagicAndSize ==
    (job.call = "validateTgsFile" /\ job.returned)
    => /\ ~BeginsWithGzipMagic(job.input) => ~job.result.valid
       /\ job.input.length > 64 * 1024 => ~job.result.valid
       /\ (BeginsWithGzipMagic(job.input) /\ job.input.length = 64 * 1024)
          => job.result.valid

C25_Witness ==
    /\ job.call = "validateTgsFile"
    /\ job.returned
    /\ job.input.length = 64 * 1024
    /\ BeginsWithGzipMagic(job.input)
    /\ job.result.valid

\* The limits a probed stream is over, each by the reason reported for it.
LimitsExceeded(video) ==
    {r \in {"Video codec must be VP9", "File too large", "Duration too long",
            "Frame rate too high", "Dimensions too large"} :
        \/ r = "Video codec must be VP9" /\ video.codec # "vp9"
        \/ r = "File too large" /\ video.length > 256 * 1024
        \/ r = "Duration too long" /\ video.duration > 3000
        \/ r = "Frame rate too high" /\ video.frameRate.num > 30 * video.frameRate.den
        \/ r = "Dimensions too large" /\ (video.width > 512 \/ video.height > 512)}

\* C26: validateWebmFile rejects a video over the limit of duration (3 s),
\* frame rate (30 fps), size (256 KB), codec (VP9) or dimensions (512), the
\* reason it reports names a limit the video is over, and is that limit's
\* own reason when the video is over one limit only; a video within the
\* five limits is accepted.
C26_WebmLimitsWithReasons ==
    (job.call = "validateWebmFile" /\ job.returned /\ job.input.probe = "stream")
    => LET over == LimitsExceeded(job.input)
       IN /\ job.result.valid <=> over = {}
          /\ ~job.result.valid => job.result.reason \in over

C26_Witness ==
    /\ job.call = "validateWebmFile"
    /\ job.returned
    /\ job.input.probe = "stream"
    /\ LimitsExceeded(job.input) = {"Dimensions too large"}
    /\ job.input.width <= 512
    /\ job.result = Invalid("Dimensions too large")

(***************************************************************************)
(* generateStickerSetName(ctx, title), called by handleText with the title *)
(* the user typed; Math.floor(Math.random() * 1000) is drawn when the call *)
(* is made.                                                                *)
(***************************************************************************)
MaxTitleTail == 2

MyCoolPack == <<"M", "y", " ", "C", "o", "o", "l", " ", "P", "a", "c", "k", "!", "!">>

StickerBot == <<"s", "t", "i", "c", "k", "e", "r", "b", "o", "t">>

\* 39 characters, 38 of them letters or digits.
LongTitle == [i \in 1..39 |-> IF i = 20 THEN "-" ELSE IF i % 2 = 0 THEN "Q" ELSE "7"]

TitleHeads == {<<>>, MyCoolPack, LongTitle, LongTitle \o <<"x">>}

TitleTailChars == {"A", "z", "9", "!", "_"}

PackTitles ==
    {h \o tail : h \in TitleHeads,
                 tail \in UNION {[1..n -> TitleTailChars] : n \in 0..MaxTitleTail}}

RandomSuffixes == {0, 7, 42, 999}

\* A handle in the case its owner registered it in, and one of 32 characters.
Sticker_Bot == <<"S", "t", "i", "c", "k", "e", "r", "_", "B", "o", "t">>
LongHandle == [i \in 1..32 |-> IF i > 29 THEN <<"b", "o", "t">>[i - 29] ELSE "a"]

BotUsernames == {StickerBot, BotUsername, Sticker_Bot, LongHandle}

\* generateStickerSetName is called with a title.
InitName ==
    /\ AtRest
    /\ \E title \in PackTitles, botUsername \in BotUsernames, r \in RandomSuffixes :
          job = [call |-> "generateStickerSetName", title |-> title,
                 botUsername |-> botUsername, randomSuffix |-> r,
                 returned |-> FALSE, result |-> <<>>]

\* generateStickerSetName returns the name.
NameGenerated ==
    /\ job.call = "generateStickerSetName"
    /\ ~job.returned
    /\ job' = [job EXCEPT !.returned = TRUE,
                          !.result = generateStickerSetName(job.botUsername, job.title,
                                                            job.randomSuffix)]
    /\ StaysAtRest

NextName == NameGenerated

SpecName == InitName /\ [][NextName]_vars

\* The positions of a title whose character is a letter a-z or A-Z or a
\* digit.
AlnumPositions(title) ==
    {i \in DOMAIN title :
        title[i] \in Range(LowerChars) \cup Range(UpperChars) \cup Range(DigitChars)}

\* C27: the generated slug is the title lowercased, stripped of everything
\* but [a-z0-9] and cut to 40 characters, followed by _<r>_by_<bot handle>
\* with r in 0..999; "My Cool Pack!!", "stickerbot" and 42 give
\* mycoolpack_42_by_stickerbot.
C27_SlugOfTitle ==
    (job.call = "generateStickerSetName" /\ job.returned)
    => LET pos == AlnumPositions(job.title)
           n == Cardinality(pos)
           baseLen == IF n < 40 THEN n ELSE 40
           NthAlnum(j) == CHOOSE i \in pos : Cardinality({k \in pos : k <= i}) = j
           rest == <<"_">> \o decimalString(job.randomSuffix) \o <<"_", "b", "y", "_">>
                       \o job.botUsername
       IN /\ job.randomSuffix \in 0..999
          /\ Len(job.result) = baseLen + Len(rest)
          /\ \A j \in 1..baseLen :
                job.result[j] = toLowerCaseChar(job.title[NthAlnum(j)])
          /\ SubSeq(job.result, baseLen + 1, Len(job.result)) = rest
          /\ (job.title = MyCoolPack /\ job.botUsername = StickerBot
                /\ job.randomSuffix = 42)
             => job.result = <<"m", "y", "c", "o", "o", "l", "p", "a", "c", "k", "_",
                               "4", "2", "_", "b", "y", "_",
                               "s", "t", "i", "c", "k", "e", "r", "b", "o", "t">>

C27_Witness ==
    /\ job.call = "generateStickerSetName"
    /\ job.returned
    /\ job.title = MyCoolPack
    /\ job.botUsername = StickerBot
    /\ job.randomSuffix = 42
    /\ Len(job.result) = 27

(***************************************************************************)
(* The staged file of a sticker on the success path of                     *)
(* handleStickerForPack: processImageToFile writes it, createStickerSet or *)
(* addStickerToSet deletes it after the platform call, and                 *)
(* handleStickerForPack deletes it again after its reply.  The handler is  *)
(* suspended at its awaits; time passes there and the hourly               *)
(* cleanupOldFiles may run.  The file system calls are modelled by what    *)
(* they do: unlinkSync of a path that is absent throws ENOENT.             *)
(***************************************************************************)
MAX_FILE_AGE == 6

existsSync(files, filePath) == filePath \in files

unlinkSync(files, filePath) ==
    IF filePath \in files
    THEN [files |-> files \ {filePath}, thrown |-> FALSE]
    ELSE [files |-> files, thrown |-> TRUE]

\* safeDeleteFile without the existsSync test and without the try.
unguardedDelete(files, filePath) ==
    LET unlinked == unlinkSync(files, filePath)
    IN [files |-> unlinked.files, returned |-> ~unlinked.thrown,
        thrown |-> unlinked.thrown]

\* safeDeleteFile(filePath, context): the files it leaves, the boolean it
\* returns, and whether an exception leaves it.
deleteOutcome(files, filePath) ==
    IF existsSync(files, filePath)
    THEN LET unlinked == unlinkSync(files, filePath)
         IN [files |-> unlinked.files, returned |-> ~unlinked.thrown, thrown |-> FALSE]
    ELSE [files |-> files, returned |-> FALSE, thrown |-> FALSE]

\* cleanupOldFiles(tempDir, MAX_FILE_AGE): safeDeleteFile of every file
\* older than the maximum age.
cleanupOldFiles(files, t) ==
    {f \in files : ~(t - f.timestamp > MAX_FILE_AGE * 60 * 60 * 1000)}

StagedPath(userId, t) == generateUniqueFilename("sticker", "webp", userId, t)

\* handleStickerForPack is called with a static image.
InitDelete ==
    /\ AtRest
    /\ \E u \in Users, step \in {"waiting_first_sticker", "adding_stickers"} :
          job = [call |-> "handleStickerForPack", pc |-> "stage", userId |-> u,
                 step |-> step, path |-> StagedPath(u, 0), deletions |-> <<>>,
                 thrown |-> FALSE]

DeleteStep(pc, files, t) ==
    /\ job.call = "handleStickerForPack"
    /\ job.pc = pc
    /\ tempFiles' = files
    /\ now' = t
    /\ UNCHANGED <<db, conn, procs, opsStarted, sessions, platform, out, nextSweep>>

\* processImageToFile: createTempFileFromBuffer writes the staged file.
StageFile ==
    /\ DeleteStep("stage", tempFiles \cup {StagedPath(job.userId, now)}, now)
    /\ job' = [job EXCEPT !.pc = "publish", !.path = StagedPath(job.userId, now)]

\* The deletion at the end of a step, recorded with what it found.
Deleted(pc, next) ==
    LET outcome == deleteOutcome(tempFiles, job.path)
    IN /\ DeleteStep(pc, outcome.files, now)
       /\ job' = [job EXCEPT
                     !.pc = IF outcome.thrown THEN "done" ELSE next,
                     !.thrown = outcome.thrown,
                     !.deletions = Append(@, [found |-> job.path \in tempFiles,
                                              returned |-> outcome.returned])]

\* createStickerSet or addStickerToSet succeeds and deletes the file.
PublisherDeletes == Deleted("publish", "reply")

\* handleStickerForPack has replied and deletes the file.
HandlerDeletes == Deleted("reply", "done")

\* An hour passes while the handler awaits.
HourPasses ==
    /\ job.pc \in {"stage", "publish", "reply"}
    /\ now + PURGE_INTERVAL <= MaxClock
    /\ DeleteStep(job.pc, tempFiles, now + PURGE_INTERVAL)
    /\ UNCHANGED job

\* The cleanup timer fires while the handler awaits.
CleanupRuns ==
    /\ job.pc \in {"stage", "publish", "reply"}
    /\ DeleteStep(job.pc, cleanupOldFiles(tempFiles, now), now)
    /\ UNCHANGED job

NextDelete ==
    \/ StageFile
    \/ PublisherDeletes
    \/ HandlerDeletes
    \/ HourPasses
    \/ CleanupRuns

SpecDelete == InitDelete /\ [][NextDelete]_vars

\* C28: safeDeleteFile of a path that is already absent changes nothing
\* and raises no error: on the success path of handleStickerForPack neither
\* the deletion in createStickerSet/addStickerToSet nor the second one in
\* handleStickerForPack fails the handler, whether or not the cleanup
\* removed the file before, and the file is gone after each.
C28_DeleteIsIdempotent ==
    [][(job.call = "handleStickerForPack" /\ Len(job'.deletions) > Len(job.deletions))
       => /\ ~job'.thrown
          /\ job.path \notin tempFiles'
          /\ job.path \notin tempFiles
             => /\ tempFiles' = tempFiles
                /\ ~job'.deletions[Len(job'.deletions)].returned]_vars

C28_Witness ==
    /\ job.call = "handleStickerForPack"
    /\ job.pc = "done"
    /\ ~job.thrown
    /\ Len(job.deletions) = 2
    /\ ~job.deletions[2].found
    /\ ~job.deletions[2].returned

\* The callback data view_pack puts in the Toggle Favorite and the Remove
\* from My Packs buttons of a pack: `toggle_favorite:${pack.id}` and
\* `remove_pack:${pack.id}`.
viewPackButtons(pack) ==
    [toggle |-> Action("toggle_favorite", pack.id),
     remove |-> Action("remove_pack", pack.id)]

\* C29: the pack id that the toggle_favorite and remove_pack callbacks
\* decode is the id view_pack embedded in the button: for a pack in the
\* user's collection, Toggle Favorite inverts that user's is_favorite on
\* the pack and Remove from My Packs deletes that user's membership of it.
C29_ButtonsActOnTheirPack ==
    \A c \in Chats, u \in Users, p \in db.sticker_packs :
        UserPackRow(db, u, p.id) # {}
        => LET before == Context(c)
               buttons == viewPackButtons(p)
               toggled == handleCallback(before, u, buttons.toggle, "none", 1, now)
               removed == handleCallback(before, u, buttons.remove, "none", 1, now)
           IN /\ parseInt(buttons.toggle.arg) = p.id
              /\ parseInt(buttons.remove.arg) = p.id
              /\ \A r \in UserPackRow(db, u, p.id) :
                    [r EXCEPT !.is_favorite = 1 - r.is_favorite]
                        \in UserPackRow(toggled.db, u, p.id)
              /\ UserPackRow(removed.db, u, p.id) = {}

(***************************************************************************)
(* handleStickerForPack for the first sticker of a pack, await by await,   *)
(* with the other events of the same chat handled while it is suspended.   *)
(* The handler holds the session object of the chat; the handlers of       *)
(* /cancel, finish_adding and start_over write to the same object before   *)
(* their own first await.  handleStickerForPack reads packCreationStep,    *)
(* currentPackName and packTitle when processImageToFile has resolved, and *)
(* writes packCreationStep when createStickerSet has.                      *)
(***************************************************************************)
RestContext ==
    [s |-> NewSession(0), db |-> EmptyDb,
     platform |-> [n \in {ExternalSetName} |-> ExternalSet],
     files |-> {}, calls |-> {}, attempts |-> {}, imported |-> {},
     error |-> "none", replies |-> {}, converted |-> FALSE]

\* The session of a chat that chose the packs mode, create_pack, and sent
\* a title.
AwaitingFirstSticker(userId, title, r) ==
    LET packs == handleCallback(RestContext, userId, Action("select_packs", <<>>),
                                "none", 1, 0)
        named == handleCallback(packs, userId, Action("create_pack", <<>>), "none", 1, 0)
    IN handleText(named, userId, title, r, "none", 1, 0).s

FirstStickerOutcomes == {"none", "convert", "api", "asp_insPack", "getStickerSet"}

\* The image has arrived: handleStickerForPack awaits its first reply.
InitRace ==
    /\ db = EmptyDb
    /\ conn = NoConn
    /\ procs = [p \in Procs |-> IdleProc]
    /\ opsStarted = 0
    /\ now = 0
    /\ platform = [n \in {ExternalSetName} |-> ExternalSet]
    /\ tempFiles = {}
    /\ out = NoOut
    /\ nextSweep = PURGE_INTERVAL
    /\ \E u \in Users, title \in TitleTexts, r \in SuffixDraws, o \in FirstStickerOutcomes :
          /\ sessions = [c \in {1} |-> AwaitingFirstSticker(u, title, r)]
          /\ sessions[1].packCreationStep = "waiting_first_sticker"
          /\ job = [call |-> "createFirstSticker", pc |-> "processing", chat |-> 1,
                    userId |-> u, outcome |-> o, name |-> NullStr, title |-> NullStr,
                    path |-> generateUniqueFilename("sticker", "webp", u, 0)]

\* The suspended handler resumes and ends its step in context x.
Resumed(pc, x) ==
    /\ job.call = "createFirstSticker"
    /\ job.pc = pc
    /\ sessions' = [sessions EXCEPT ![job.chat] = x.s]
    /\ db' = x.db
    /\ platform' = x.platform
    /\ tempFiles' = x.files
    /\ out' = [chat |-> job.chat, calls |-> x.calls, attempts |-> x.attempts,
               imported |-> x.imported, error |-> x.error,
               replies |-> x.replies \cap FlowReplies]
    /\ UNCHANGED <<conn, procs, opsStarted, now, nextSweep>>

\* The context the suspended handler resumes in: the session object as the
\* other handlers left it.
ResumeContext ==
    [s |-> sessions[job.chat], db |-> db, platform |-> platform, files |-> tempFiles,
     calls |-> {}, attempts |-> {}, imported |-> {}, error |-> "none",
     replies |-> {}, converted |-> FALSE]

\* processImageToFile has resolved: the file is staged, or the conversion
\* threw; the step is read and createStickerSet or addStickerToSet is
\* called with the pack name the session holds now.
StageAndCall ==
    IF job.outcome = "convert"
    THEN /\ Resumed("processing", Reply(Convert(ResumeContext), "error"))
         /\ job' = [job EXCEPT !.pc = "done"]
    ELSE /\ Resumed("processing", createTempFile(Convert(ResumeContext), job.path))
         /\ job' = [job EXCEPT
                       !.pc = IF sessions[job.chat].packCreationStep
                                   = "waiting_first_sticker"
                              THEN "creating" ELSE "adding",
                       !.name = sessions[job.chat].currentPackName,
                       !.title = sessions[job.chat].packTitle]

\* createStickerSet has resolved or thrown: on success packCreationStep is
\* set, the reply is sent and the file deleted.
CreationReturns ==
    LET r == createStickerSet(ResumeContext, job.userId, job.name, job.title, job.path,
                              "static", job.outcome, FreshDraw, now)
    IN /\ Resumed("creating",
                  IF r.thrown THEN Reply(r.x, "error")
                  ELSE safeDeleteFile(
                           Reply([r.x EXCEPT !.s.packCreationStep = "adding_stickers"],
                                 "created"),
                           job.path))
       /\ job' = [job EXCEPT !.pc = "done"]

\* addStickerToSet has resolved or thrown.
AdditionReturns ==
    LET r == addStickerToSet(ResumeContext, job.userId, job.name, job.path, "static",
                             job.outcome, FreshDraw, now)
    IN /\ Resumed("adding",
                  IF r.thrown THEN Reply(r.x, "error")
                  ELSE safeDeleteFile(Reply(r.x, "added"), job.path))
       /\ job' = [job EXCEPT !.pc = "done"]

\* An event of the same chat is handled while the handler is suspended.
During(x) ==
    /\ job.call = "createFirstSticker"
    /\ job.pc \in {"processing", "creating", "adding"}
    /\ sessions' = [getSession(sessions, job.chat, now) EXCEPT ![job.chat] = x.s]
    /\ db' = x.db
    /\ platform' = x.platform
    /\ tempFiles' = x.files
    /\ out' = [chat |-> job.chat, calls |-> x.calls, attempts |-> x.attempts,
               imported |-> x.imported, error |-> x.error,
               replies |-> x.replies \cap FlowReplies]
    /\ UNCHANGED <<conn, procs, opsStarted, now, nextSweep, job>>

CancelDuring == During(handleCancel(ResumeContext))

FinishDuring ==
    During(handleCallback(ResumeContext, job.userId, Action("finish_adding", <<>>),
                          "none", 1, now))

StartOverDuring ==
    During(handleCallback(ResumeContext, job.userId, Action("start_over", <<>>),
                          "none", 1, now))

NextRace ==
    \/ StageAndCall
    \/ CreationReturns
    \/ AdditionReturns
    \/ CancelDuring
    \/ FinishDuring
    \/ StartOverDuring

SpecRace == InitRace /\ [][NextRace]_vars

\* C30: a session whose packCreationStep is adding_stickers has a pack
\* name also when /cancel, finish_adding or start_over of the same chat is
\* handled while the creation of the pack's first sticker is suspended at
\* an await.
C30_InvariantUnderInterleaving ==
    job.call = "createFirstSticker"
    => \A c \in DOMAIN sessions :
          sessions[c].packCreationStep = "adding_stickers"
          => sessions[c].currentPackName \notin {NullStr, UndefinedStr}

(***************************************************************************)
(* Two addStickerToSet calls on one pack, await by await.  The pack was    *)
(* created through the bot with its first sticker; two images have been    *)
(* staged for it, 1 ms apart.  Each call awaits canUserEditPack, the       *)
(* platform's addStickerToSet, getStickerPackByName, getStickerSet and     *)
(* addStickerToDatabase; the other call runs at any of these awaits.  The  *)
(* two transactions of addStickerToDatabase are taken one after the other  *)
(* (SpecTxn has their interleavings), and the set stays far below the      *)
(* platform's limit.                                                       *)
(***************************************************************************)
PairSetName == <<"p", "1">>

PairPath(i) == generateUniqueFilename("sticker", "webp", i, i)

\* The repository, the platform and the temp directory after the owner
\* created the pack with a first sticker and the two images were staged.
PackCreated(owner) ==
    LET first == generateUniqueFilename("sticker", "webp", owner, 0)
        made == createStickerSet(createTempFile(RestContext, first), owner, PairSetName,
                                 PairSetName, first, "static", "none", 1, 0).x
    IN createTempFile(createTempFile(made, PairPath(1)), PairPath(2))

PairOutcomes == {"none", "api", "getStickerSet"}

PairCall(userId, o, i) ==
    [pc |-> "canUserEditPack", userId |-> userId, outcome |-> o, path |-> PairPath(i),
     packId |-> NoId, position |-> 0, fileId |-> FileIdOf(<<>>, 0), added |-> FALSE,
     thrown |-> FALSE]

InitPair ==
    /\ conn = NoConn
    /\ procs = [p \in Procs |-> IdleProc]
    /\ opsStarted = 0
    /\ now = 0
    /\ sessions = <<>>
    /\ out = NoOut
    /\ nextSweep = PURGE_INTERVAL
    /\ \E owner \in Users, u1 \in Users, u2 \in Users, o1 \in PairOutcomes,
          o2 \in PairOutcomes :
          /\ db = PackCreated(owner).db
          /\ platform = PackCreated(owner).platform
          /\ tempFiles = PackCreated(owner).files
          /\ job = [call |-> "addStickerToSet", setName |-> PairSetName,
                    of |-> <<PairCall(u1, o1, 1), PairCall(u2, o2, 2)>>]

\* Call i is at pc and moves on as next says, leaving the rows d, the sets
\* pl and the files f.
PairStep(i, pc, next, d, pl, f) ==
    /\ job.call = "addStickerToSet"
    /\ job.of[i].pc = pc
    /\ job' = [job EXCEPT !.of[i] = next]
    /\ db' = d
    /\ platform' = pl
    /\ tempFiles' = f
    /\ UNCHANGED <<conn, procs, opsStarted, now, sessions, out, nextSweep>>

\* canUserEditPack has resolved; the file is looked up and read.
PermissionChecked(i) ==
    LET me == job.of[i]
        ok == /\ canUserEditPack(db, me.userId, job.setName)
              /\ existsSync(tempFiles, me.path)
    IN PairStep(i, "canUserEditPack",
                [me EXCEPT !.pc = IF ok THEN "callApi" ELSE "done", !.thrown = ~ok],
                db, platform, tempFiles)

\* ctx.telegram.callApi('addStickerToSet', params) has resolved or thrown.
PlatformAdded(i) ==
    LET me == job.of[i]
    IN IF me.outcome = "api" \/ job.setName \notin DOMAIN platform
       THEN PairStep(i, "callApi", [me EXCEPT !.pc = "done", !.thrown = TRUE],
                     db, platform, tempFiles)
       ELSE PairStep(i, "callApi", [me EXCEPT !.pc = "getStickerPackByName", !.added = TRUE],
                     db, [platform EXCEPT ![job.setName].stickers = @ + 1], tempFiles)

\* getStickerPackByName(setName) has resolved.
PackRead(i) ==
    LET me == job.of[i]
        pack == PackByName(db, job.setName)
    IN PairStep(i, "getStickerPackByName",
                IF pack = {} THEN [me EXCEPT !.pc = "safeDeleteFile"]
                ELSE [me EXCEPT !.pc = "getStickerSet",
                                !.packId = (CHOOSE p \in pack : TRUE).id],
                db, platform, tempFiles)

\* ctx.telegram.getStickerSet(setName) has resolved or thrown: the position
\* is the index of the last sticker of the set, the file id is that
\* sticker's.
SetRead(i) ==
    LET me == job.of[i]
        length == platform[job.setName].stickers
    IN PairStep(i, "getStickerSet",
                IF me.outcome = "getStickerSet" THEN [me EXCEPT !.pc = "safeDeleteFile"]
                ELSE [me EXCEPT !.pc = "addStickerToDatabase",
                                !.position = length - 1,
                                !.fileId = FileIdOf(job.setName, length)],
                db, platform, tempFiles)

\* addStickerToDatabase(pack.id, newSticker.file_id, emoji, position, type);
\* generateRandomId draws an id no sticker carries.
StickerRecorded(i) ==
    LET me == job.of[i]
    IN PairStep(i, "addStickerToDatabase", [me EXCEPT !.pc = "safeDeleteFile"],
                addStickerToDatabase(db, me.packId, me.fileId, me.position, "static",
                                     now, "none", Cardinality(db.stickers) + 1).db,
                platform, tempFiles)

\* safeDeleteFile(stickerPath) and the return.
PairFileDeleted(i) ==
    LET me == job.of[i]
    IN PairStep(i, "safeDeleteFile", [me EXCEPT !.pc = "done"],
                db, platform, deleteOutcome(tempFiles, me.path).files)

NextPair ==
    \E i \in 1..2 :
        \/ PermissionChecked(i)
        \/ PlatformAdded(i)
        \/ PackRead(i)
        \/ SetRead(i)
        \/ StickerRecorded(i)
        \/ PairFileDeleted(i)

SpecPair == InitPair /\ [][NextPair]_vars

\* C31: when two addStickerToSet calls on one pack have both added their
\* sticker on the platform and both recorded it, the sticker rows of the
\* pack have pairwise distinct positions and pairwise distinct file ids,
\* and there is one row for each sticker of the set.
C31_InterleavedAddsRecordDistinctRows ==
    (/\ job.call = "addStickerToSet"
     /\ \A i \in 1..2 : job.of[i].pc = "done" /\ job.of[i].added
                        /\ job.of[i].outcome = "none")
    => /\ \A s1, s2 \in db.stickers :
             (s1 # s2 /\ s1.pack_id = s2.pack_id)
             => s1.position # s2.position /\ s1.file_id # s2.file_id
       /\ {s.file_id : s \in db.stickers}
             = {FileIdOf(job.setName, n) : n \in 1..platform[job.setName].stickers}

\* C32: the packCreationStep of a session is set (neither null nor
\* undefined) only while its mode is packs, and select_packs always leaves
\* the session in the pack menu, that is with no packCreationStep set.
C32_PackStepOnlyInPacksMode ==
    \A c \in DOMAIN sessions :
        /\ sessions[c].packCreationStep \notin {"null", "undefined"}
           => sessions[c].mode = "packs"
        /\ \A u \in Users :
              handleCallback(Context(c), u, Action("select_packs", <<>>), "none", 1, now)
                  .s.packCreationStep \in {"null", "undefined"}

\* getUserStickerPacks(userId): the packs joined with the user's membership
\* rows (the order of the rows is left out).
getUserStickerPacks(d, userId) ==
    {[id |-> p.id, name |-> p.name, title |-> p.title, owner_id |-> p.owner_id,
      can_edit |-> r.can_edit, is_favorite |-> r.is_favorite] :
        <<p, r>> \in {pr \in d.sticker_packs \X d.user_packs :
                        pr[1].id = pr[2].pack_id /\ pr[2].user_id = userId}}

\* getUserStickerSets(ctx): can_edit and is_favorite become booleans.
getUserStickerSets(d, userId) ==
    {[pack EXCEPT !.can_edit = (@ = 1), !.is_favorite = (@ = 1)] :
        pack \in getUserStickerPacks(d, userId)}

\* The list_packs callback: one select_pack:<name> button for each pack of
\* the user that has can_edit.
listPacksButtons(d, userId) ==
    {Action("select_pack", pack.name) :
        pack \in {q \in getUserStickerSets(d, userId) : q.can_edit}}

\* C33: the packs list_packs offers to a user are the packs of the user's
\* collection on which the permission check of select_pack succeeds.
C33_ListedPacksAreTheEditablePacks ==
    \A u \in Users :
        {b.arg : b \in listPacksButtons(db, u)}
            = {pack.name : pack \in {q \in getUserStickerPacks(db, u) :
                                        canUserEditPack(db, u, q.name)}}

(***************************************************************************)
(* The repository called operation by operation, each call run from its   *)
(* BEGIN to its return or throw before the next starts, with a fault at    *)
(* any of its db.run statements.  job holds the last call, its arguments,  *)
(* what it returned and how many sticker rows it found.                    *)
(***************************************************************************)
MaxRepoStickers == 1

RepoTitles == {<<"O", "n", "e">>}

RepoCall(call, userId, packName, packId, canEdit, r) ==
    [call |-> call, userId |-> userId, packName |-> packName, packId |-> packId,
     canEdit |-> canEdit, ret |-> r.pr.ret, failed |-> r.pr.failed,
     stickers |-> Cardinality(db.stickers)]

InitRepo ==
    /\ AtRest
    /\ job = [call |-> "initDatabase", userId |-> 0, packName |-> <<>>, packId |-> NoId,
              canEdit |-> FALSE, ret |-> NoId, failed |-> FALSE, stickers |-> 0]

Returned(d, call) ==
    /\ job.call \in {"initDatabase", "addStickerPack", "addExternalStickerPack",
                     "addStickerToDatabase", "toggleFavoritePack", "removeUserPack"}
    /\ db' = d
    /\ job' = call
    /\ UNCHANGED <<conn, procs, opsStarted, now, sessions, platform, tempFiles, out,
                   nextSweep>>

AddStickerPackFaults == {"none", "asp_insUser", "asp_insPack", "asp_insUserPack",
                         "asp_linkExisting"}

\* addStickerPack(userId, packName, packTitle, canEdit)
AddStickerPackCalled ==
    \E u \in Users, n \in TxnNames, title \in RepoTitles, e \in BOOLEAN,
       f \in AddStickerPackFaults, k \in IdDraws :
        LET r == addStickerPack(db, u, n, title, e, now, f, k)
        IN Returned(r.db, RepoCall("addStickerPack", u, n, NoId, e, r))

\* addExternalStickerPack(userId, packName, packTitle): the title is the
\* name when none is given.
AddExternalStickerPackCalled ==
    \E u \in Users, n \in TxnNames, title \in RepoTitles \cup {UndefinedStr},
       f \in AddStickerPackFaults, k \in IdDraws :
        LET r == addStickerPack(db, u, n, IF title = UndefinedStr THEN n ELSE title,
                                FALSE, now, f, k)
        IN Returned(r.db, RepoCall("addExternalStickerPack", u, n, NoId, FALSE, r))

\* addStickerToDatabase(packId, fileId, emoji, position, type), for a pack
\* id that exists or not.
AddStickerToDatabaseCalled ==
    /\ Cardinality(db.stickers) < MaxRepoStickers
    /\ \E id \in TxnPackIds, f \in {"none", "asd_insSticker", "asd_touchPack"},
          k \in IdDraws :
          LET position == Cardinality({s \in db.stickers : s.pack_id = id})
              r == addStickerToDatabase(db, id, FileIdOf(<<"f">>, position + 1), position,
                                        "static", now, f, k)
          IN Returned(r.db, RepoCall("addStickerToDatabase", 0, <<>>, id, FALSE, r))

\* toggleFavoritePack(userId, packId)
ToggleFavoritePackCalled ==
    \E u \in Users, id \in TxnPackIds :
        LET r == toggleFavoritePack(db, u, id)
        IN Returned(r.db, RepoCall("toggleFavoritePack", u, <<>>, id, FALSE,
                                   [pr |-> [ret |-> id, failed |-> r.failed]]))

\* removeUserPack(userId, packId)
RemoveUserPackCalled ==
    \E u \in Users, id \in TxnPackIds, f \in {"none", "rup_delUserPack", "rup_delPack"} :
        LET r == removeUserPack(db, u, id, now, f, 1)
        IN Returned(r.db, RepoCall("removeUserPack", u, <<>>, id, FALSE, r))

NextRepo ==
    \/ AddStickerPackCalled
    \/ AddExternalStickerPackCalled
    \/ AddStickerToDatabaseCalled
    \/ ToggleFavoritePackCalled
    \/ RemoveUserPackCalled

SpecRepo == InitRepo /\ [][NextRepo]_vars

\* C34: a call of addStickerPack (or of addExternalStickerPack, which is
\* addStickerPack with canEdit = false) for a user and a pack name that
\* already have a membership returns the id of that pack without throwing
\* and changes no row: no sticker_packs or user_packs row is added, and the
\* membership's can_edit and is_favorite and the pack's owner and title
\* stay.  There is at most one membership row per user and pack.
C34_AddStickerPackIsIdempotent ==
    [][/\ (/\ job'.call \in {"addStickerPack", "addExternalStickerPack"}
           /\ \E p \in PackByName(db, job'.packName) :
                 UserPackRow(db, job'.userId, p.id) # {})
          => /\ ~job'.failed
             /\ db' = db
             /\ \E p \in PackByName(db, job'.packName) : job'.ret = p.id
       /\ \A r1, r2 \in db'.user_packs :
             (r1.user_id = r2.user_id /\ r1.pack_id = r2.pack_id) => r1 = r2]_vars

\* A call for an existing membership that is a favorite, with another
\* canEdit than the membership has, on a pack another user owns.
C34_Witness ==
    /\ job.call = "addStickerPack"
    /\ ~job.failed
    /\ \E p \in PackById(db, job.ret) :
          /\ p.name = job.packName
          /\ p.owner_id # job.userId
          /\ \E r \in UserPackRow(db, job.userId, p.id) :
                /\ r.is_favorite = 1
                /\ r.can_edit = 0
                /\ job.canEdit

\* C35: after any sequence of repository operations every user_packs row
\* and every stickers row refers to a sticker_packs row that exists, and
\* every owner_id of a pack and every user_id of a membership to a users
\* row that exists.
C35_RowsReferToExistingRows ==
    job.call \in {"initDatabase", "addStickerPack", "addExternalStickerPack",
                  "addStickerToDatabase", "toggleFavoritePack", "removeUserPack"}
    => /\ \A r \in db.user_packs :
             PackById(db, r.pack_id) # {} /\ r.user_id \in db.users
       /\ \A s \in db.stickers : PackById(db, s.pack_id) # {}
       /\ \A p \in db.sticker_packs : p.owner_id \in db.users

\* removeUserPack has deleted a pack that held a sticker row.
C35_Witness ==
    /\ job.call = "removeUserPack"
    /\ ~job.failed
    /\ job.stickers = 1
    /\ PackById(db, job.packId) = {}
    /\ db.stickers = {}
    /\ job.userId \in db.users

\* C36: the name generateStickerSetName returns for a title of at least 3
\* characters and a bot handle of 5 to 32 letters, digits and underscores
\* passes the isValidStickerSetName test createStickerSet applies.
C36_GeneratedNamePassesValidation ==
    (/\ job.call = "generateStickerSetName"
     /\ job.returned
     /\ Len(job.title) >= 3
     /\ Len(job.botUsername) \in 5..32)
    => isValidStickerSetNameOfUtils(job.result)

\* C37: when a chat that is creating or filling a pack sends media and the
\* platform's createNewStickerSet or addStickerToSet call fails (the set on
\* the platform stays as it was), the repository rows, packCreationStep and
\* currentPackName are the same after the handler as before it; and every
\* stickers row carries the file id of a sticker of its pack's set on the
\* platform.
C37_FailedPublishWritesNothing ==
    /\ \A c \in Chats, u \in Users, m \in InboundMedia, o \in Outcomes :
          LET before == Context(c)
              after == handleMedia(before, u, m, o, FreshDraw, now)
          IN InPackUpload(before.s)
             => /\ o = "api" => after.platform = before.platform
                /\ after.platform = before.platform
                   => /\ after.db = before.db
                      /\ after.s.packCreationStep = before.s.packCreationStep
                      /\ after.s.currentPackName = before.s.currentPackName
    /\ \A s \in db.stickers :
          \E p \in PackById(db, s.pack_id) :
              /\ p.name \in DOMAIN platform
              /\ \E i \in 1..platform[p.name].stickers : s.file_id = FileIdOf(p.name, i)

\* The platform's addStickerToSet was called for a pack that has a sticker
\* row and failed: the handler ended at the call, its staged file is left.
C37_Witness ==
    /\ out.calls # {}
    /\ tempFiles # {}
    /\ out.chat \in DOMAIN sessions
    /\ sessions[out.chat].packCreationStep = "adding_stickers"
    /\ \E a \in out.calls, p \in db.sticker_packs :
          /\ p.name = a.name
          /\ p.name = sessions[out.chat].currentPackName
          /\ \E s \in db.stickers : s.pack_id = p.id

(***************************************************************************)
(* Staged files of two handlers that run at the same time.  A handler      *)
(* calls createTempFileFromBuffer, awaits the publishing or the sending of *)
(* the file, and deletes it; the other handler runs at that await.         *)
(* validateWebmFile writes its copy, probes it with execSync and deletes   *)
(* it without an await in between.  Date.now() counts milliseconds; any    *)
(* number of steps fit in one.                                             *)
(***************************************************************************)
MaxStageClock == 2

StagePurposes ==
    {[prefix |-> "sticker", extension |-> "webp"],
     [prefix |-> "icon", extension |-> "webp"],
     [prefix |-> "validate", extension |-> "webm"]}

InitStage ==
    /\ AtRest
    /\ \E u1 \in Users, u2 \in Users, p1 \in StagePurposes, p2 \in StagePurposes :
          job = [call |-> "createTempFileFromBuffer",
                 of |-> <<[pc |-> "start", userId |-> u1, purpose |-> p1,
                           path |-> generateUniqueFilename("", "", 0, 0)],
                          [pc |-> "start", userId |-> u2, purpose |-> p2,
                           path |-> generateUniqueFilename("", "", 0, 0)]>>]

StageStep(i, pc, next, files, t) ==
    /\ job.call = "createTempFileFromBuffer"
    /\ job.of[i].pc = pc
    /\ job' = [job EXCEPT !.of[i] = next]
    /\ tempFiles' = files
    /\ now' = t
    /\ UNCHANGED <<db, conn, procs, opsStarted, sessions, platform, out, nextSweep>>

\* createTempFileFromBuffer(buffer, userId, prefix, extension)
FileStaged(i) ==
    LET me == job.of[i]
        path == generateUniqueFilename(me.purpose.prefix, me.purpose.extension,
                                       me.userId, now)
    IN /\ me.purpose.prefix # "validate"
       /\ StageStep(i, "start", [me EXCEPT !.pc = "staged", !.path = path],
                    tempFiles \cup {path}, now)

\* safeDeleteFile of the staged file when the handler resumes.
FileUnstaged(i) ==
    LET me == job.of[i]
    IN StageStep(i, "staged", [me EXCEPT !.pc = "done"],
                 deleteOutcome(tempFiles, me.path).files, now)

\* validateWebmFile: the copy is written, probed and deleted in one run.
CopyValidated(i) ==
    LET me == job.of[i]
        path == generateUniqueFilename(me.purpose.prefix, me.purpose.extension, 0, now)
    IN /\ me.purpose.prefix = "validate"
       /\ StageStep(i, "start", [me EXCEPT !.pc = "done", !.path = path],
                    deleteOutcome(tempFiles \cup {path}, path).files, now)

\* A millisecond passes.
MillisecondPasses ==
    /\ job.call = "createTempFileFromBuffer"
    /\ now < MaxStageClock
    /\ now' = now + 1
    /\ UNCHANGED <<db, conn, procs, opsStarted, sessions, platform, tempFiles, out,
                   nextSweep, job>>

NextStage ==
    \/ \E i \in 1..2 :
          \/ FileStaged(i)
          \/ FileUnstaged(i)
          \/ CopyValidated(i)
    \/ MillisecondPasses

SpecStage == InitStage /\ [][NextStage]_vars

\* C38: two staged files that are live at the same time have different
\* names, also when they were created for the same user and purpose.
C38_LiveStagedFilesHaveDistinctNames ==
    (/\ job.call = "createTempFileFromBuffer"
     /\ job.of[1].pc = "staged"
     /\ job.of[2].pc = "staged")
    => job.of[1].path # job.of[2].path

====
